---------------------------- MODULE Spec2Model ----------------------------
(***************************************************************************)
(* Model of the sweep detection / forward-outcome evaluation pipeline of   *)
(* edirent/sweep:                                                          *)
(*   sweep_param_scan.py  detect_sweeps_py, compute_ret_stats              *)
(*   analyze_sweep.py     compute_ret_mfe_mae (rescans per event)          *)
(*   offline_analyze.py   compute_ret_mfe_mae (one shared forward pointer) *)
(*                                                                         *)
(* Numbers.  The code works on Python floats.  The model works on exact    *)
(* integers: a timestamp is a whole number of time units, a price a whole  *)
(* number of price units, a volume a whole number of lots.  A quotient     *)
(* a / b that the code stores (ret_h, mfe_h, mae_h) is kept as the pair    *)
(* [num |-> a, den |-> b]; a comparison of a quotient with a threshold is  *)
(* cross-multiplied (the divisor is a price, which is > 0).  Floating      *)
(* point rounding is not modelled.                                         *)
(*                                                                         *)
(* Indices.  Python lists are 0-based, TLA+ sequences 1-based: the code's  *)
(* index k is the model's k + 1, the code's n = len(ticks) is the last     *)
(* model index, "j < n" reads "j <= n", and ticks[j - 1] stays tk[j - 1].  *)
(***************************************************************************)
EXTENDS Integers, Sequences, FiniteSets

VARIABLES
    pc,               \* position of the script: which call has returned
    ticks,            \* the tick list returned by load_ticks
    window_sec,       \* detect_sweeps_py's parameters of the current run
    price_bp_thresh,
    vol_min,
    sweeps,           \* the event list: what detect_sweeps_py returned, or
                      \* the list load_sweeps returned
    res_analyze,      \* what analyze_sweep.compute_ret_mfe_mae returned
    res_offline,      \* what offline_analyze.compute_ret_mfe_mae returned
    res_stats,        \* what compute_ret_stats returned: down_rets, up_rets
    \* the consumers of the streaming engine (sweep_core.SweepModel)
    mode,             \* live_bybit_strategy.MODE
    engine_events,    \* the events the engine has signalled, in order
    n_fed,            \* number of ticks fed to process_tick
    on_sweep_calls,   \* the events handed to strategy.on_sweep, in order
    live,             \* live_bybit_strategy's globals and the orders sent
    backtest,         \* the locals of offline_backtest.main
    sweep_log,        \* rows ws_test has written to sweeps_eth.csv
    tick_log,         \* number of rows ws_test has written to ticks_eth.csv
    \* orderbook_probe.AggFlowTracker
    trades,           \* self.trades: the retained observations (ts, dir, vol)
    recorded,         \* every observation add_trade was called with, in order
    flow_call,        \* the last call: add_trade or summary, and its timestamp
    flow_ret,         \* what the last summary returned: window -> stats
    \* orderbook_probe.OrderBookL2
    bids,             \* self.bids: price -> size
    asks,             \* self.asks: price -> size
    last_ts,          \* self.last_ts
    book_msg,         \* the last message applied: its type and its "b", "a"
    book_prev,        \* bids and asks before the last message was applied
    book_ret,         \* what the last query of the book returned
    \* orderbook_probe.ProbeReporter, run detection
    bias_hist,        \* self.bias_hist: the last samples {ts, dir, net, share}
    run_call,         \* the 1-second stats of the last _detect_run call
    run_ret,          \* what the last _detect_run call returned
    \* orderbook_probe.ProbeReporter and run_probe.on_message
    now,              \* the clock: what now_ts() returns
    last_emit,        \* self.last_emit
    last_price,       \* self.last_price: << >> for None, <<p>> for p
    pulse,            \* what the last maybe_emit call printed
    msg,              \* the last message on_message was called with
    n_msgs,           \* number of messages handled
    \* sweep_param_scan.main
    grid_idx,         \* the loop indices of the next configuration
    grid_calls,       \* the calls of the detector and the evaluator so far
    grid_report,      \* what main has printed, one entry per configuration
    \* orderbook_probe.AggFlowTracker, its configuration
    windows,          \* self.windows
    \* sweep_param_scan.detect_sweeps_py, its locals
    scan_log,         \* per start index: j, up_max, dn_min, up_vol, dn_vol
                      \* as the inner loop left them in the last run
    \* sweep_param_scan.main, the passes of detect_sweeps_py's outer loop
    emit_log,         \* per configuration of the grid: its parameters, the
                      \* start indices whose pass appended an event, and
                      \* the events returned
    \* ws_long_smoketest
    smoke,            \* the module's globals: trades_1s, bucket_1s,
                      \* current_pos_dir, entry_price, cum_pnl, win_count,
                      \* loss_count, position_size_usd, bankroll
    smoke_acts        \* the actions handle_action was called with, in
                      \* order, each with current_pos_dir at the call

consumerVars == <<mode, engine_events, n_fed, on_sweep_calls, live, backtest,
                  sweep_log, tick_log>>

flowVars == <<trades, recorded, flow_call, flow_ret>>

bookVars == <<bids, asks, last_ts, book_msg, book_prev, book_ret>>

runVars == <<bias_hist, run_call, run_ret>>

probeVars == <<flowVars, bookVars, runVars>>

reporterVars == <<now, last_emit, last_price, pulse, msg, n_msgs>>

\* the state of the handlers and scripts that drive the classes above
gridVars == <<grid_idx, grid_calls, grid_report>>

\* the state of the batch scripts
batchVars == <<gridVars, scan_log, emit_log>>

\* ws_long_smoketest: its globals and the actions it has handled
smokeVars == <<smoke, smoke_acts>>

driverVars == <<reporterVars, batchVars, windows, smokeVars>>

restVars == <<consumerVars, probeVars, driverVars>>

vars == <<pc, ticks, window_sec, price_bp_thresh, vol_min, sweeps,
          res_analyze, res_offline, res_stats, restVars>>

evalVars == <<res_analyze, res_offline, res_stats>>

pipelineVars == <<ticks, window_sec, price_bp_thresh, vol_min, sweeps,
                  evalVars>>

\* The module-level state of the consumer scripts before the first message.
\* A price that is None is 0 (every price is > 0).
ConsumerInit ==
    /\ engine_events = << >>
    /\ n_fed = 0
    /\ on_sweep_calls = << >>
    /\ live = [current_pos_dir |-> 0, entry_price_track |-> 0,
               win_count |-> 0, loss_count |-> 0, cum_pnl |-> 0,
               orders |-> << >>]
    /\ backtest = [current_dir |-> 0, entry_price |-> 0, wins |-> 0,
                   losses |-> 0, cum_pnl |-> 0, sweep_cnt |-> 0,
                   open_cnt |-> 0, close_cnt |-> 0]
    /\ sweep_log = << >>
    /\ tick_log = 0

\* AggFlowTracker.__init__: no observation, nothing returned yet.
FlowInit ==
    /\ trades = << >>
    /\ recorded = << >>
    /\ flow_call = [op |-> "none", ts |-> 0]
    /\ flow_ret = << >>

\* A dict without keys.
EmptyDict == [q \in {} |-> 0]

\* OrderBookL2.__init__: two empty maps; no message applied, no query made.
BookInit ==
    /\ bids = EmptyDict
    /\ asks = EmptyDict
    /\ last_ts = 0
    /\ book_msg = [type |-> "none", b |-> << >>, a |-> << >>]
    /\ book_prev = [bids |-> EmptyDict, asks |-> EmptyDict]
    /\ book_ret = [op |-> "none"]

\* ProbeReporter.__init__: an empty bias history; no call made yet.
RunInit ==
    /\ bias_hist = << >>
    /\ run_call = [op |-> "none"]
    /\ run_ret = << >>

ProbeInit == FlowInit /\ BookInit /\ RunInit

\* no maybe_emit call yet: nothing printed
NoPulse == [emitted |-> FALSE]

\* ProbeReporter.__init__; the clock starts at 0 only in the specifications
\* that never read it
ReporterInit ==
    /\ now = 0
    /\ last_emit = 0
    /\ last_price = << >>
    /\ pulse = NoPulse
    /\ msg = [topic |-> "none"]
    /\ n_msgs = 0

\* main before its loops
GridInit ==
    /\ grid_idx = <<1, 1, 1>>
    /\ grid_calls = << >>
    /\ grid_report = << >>

\* AggFlowTracker(windows=[1.0, 3.0, 10.0]), as run_probe builds it
WindowsInit == windows = <<1, 3, 10>>

BatchInit == GridInit /\ scan_log = << >> /\ emit_log = << >>

\* ws_long_smoketest, EQUITY and LEVERAGE as they are without
\* SMOKE_EQUITY / SMOKE_LEVERAGE in the environment, EQUITY in USD.  The
\* amounts of money among the globals (cum_pnl, position_size_usd,
\* bankroll) are exact quotients of integers in thousands of USD, so that
\* a few compounded closes stay within the integers of TLC.
EQUITY == 20000
LEVERAGE == 100

\* ws_long_smoketest's globals at import (lines 20-30); an amount of money
\* is the exact quotient num / den, None is << >>
SmokeInit ==
    /\ smoke = [trades_1s |-> << >>, bucket_1s |-> << >>,
                current_pos_dir |-> 0, entry_price |-> << >>,
                cum_pnl |-> [num |-> 0, den |-> 1],
                win_count |-> 0, loss_count |-> 0,
                position_size_usd |-> [num |-> 0, den |-> 1],
                bankroll |-> [num |-> EQUITY \div 1000, den |-> 1]]
    /\ smoke_acts = << >>

DriverInit == ReporterInit /\ BatchInit /\ WindowsInit /\ SmokeInit

RestInit == mode = "paper" /\ ConsumerInit /\ ProbeInit /\ DriverInit

\* The tick and event lists and the results of the batch pipeline before
\* anything is loaded.
PipelineInit ==
    /\ ticks = << >>
    /\ window_sec = 0
    /\ price_bp_thresh = 0
    /\ vol_min = 0
    /\ sweeps = << >>
    /\ res_analyze = << >>
    /\ res_offline = << >>
    /\ res_stats = [down_rets |-> << >>, up_rets |-> << >>]

---------------------------------------------------------------------------
(* Bounds of the model and the input domains.                              *)

\* longest tick list
MaxTicks == 3
\* the timestamps a tick may carry
TsValues == {0, 1, 2}
\* the volumes a tick may carry
VolLevels == {1, 4}

\* Prices around 10000 units, so that a move of 5 units from 10000 is
\* exactly 5 bp, from 9995 slightly more and from 10005 slightly less.
PriceLevels == {9995, 10000, 10005}

\* sweep_param_scan.PRICE_BP_LIST and VOL_MIN_LIST, and window lengths
\* that cut the timestamp range at every place.
PRICE_BP_LIST == {3, 5, 8}
VOL_MIN_LIST == {2, 5, 10}
WindowLengths == TsValues

\* The detector scenario of the specification: ticks (t=0, p=100, v=1),
\* (t=0.05, p=101.5, v=3), (t=0.1, p=101.6, v=2), window 0.2 s, 100 bp,
\* vol_min 4.  Time unit 0.05 s, price unit 0.1.
ScenarioTicks ==
    << [ts |-> 0, price |-> 1000, vol |-> 1],
       [ts |-> 1, price |-> 1015, vol |-> 3],
       [ts |-> 2, price |-> 1016, vol |-> 2] >>
ScenarioParams == [window_sec |-> 4, price_bp_thresh |-> 100, vol_min |-> 4]

TickRows == [ts : TsValues, price : PriceLevels, vol : VolLevels]

\* longest event list handed to an evaluator
MaxSweeps == 2

\* The forward horizon of the three evaluators, in seconds.
T_HORIZON == 30

\* Inputs of the evaluators, in seconds: ticks at 10 s and 40 s, events
\* ending at 0 s (the tick at 40 s is past its horizon), at 10 s (the tick
\* at 40 s is exactly at the end of its horizon) and at 50 s (behind every
\* tick).  The evaluators read a tick's ts and price only.
EvalTsValues == {10, 40}
EvalPriceLevels == {99, 100, 102}
EvalTickRows == [ts : EvalTsValues, price : EvalPriceLevels]
EventEnds == {0, 10, 50}
Directions == {-1, 0, 1}
SweepRows ==
    [ts_start : {0}, ts_end : EventEnds, direction : Directions,
     price_start : {100}, price_end : {100}, volume_total : {7}]

\* The evaluator scenario of the specification: an Up event with
\* ts_end = 10 and ticks (t=10, p=100), (t=20, p=102), (t=40, p=99).
EvalScenarioTicks ==
    << [ts |-> 10, price |-> 100], [ts |-> 20, price |-> 102],
       [ts |-> 40, price |-> 99] >>
EvalScenarioSweep ==
    [ts_start |-> 0, ts_end |-> 10, direction |-> 1, price_start |-> 100,
     price_end |-> 100, volume_total |-> 7]

DetectParams ==
    [window_sec : WindowLengths, price_bp_thresh : PRICE_BP_LIST,
     vol_min : VOL_MIN_LIST] \cup {ScenarioParams}

---------------------------------------------------------------------------
(* load_ticks: rows.append(...) for every row, then the stable            *)
(* rows.sort(key=ts).  After k rows the list is the stable sort of the     *)
(* first k rows: each row goes behind the rows with ts <= its own.         *)

InsertByTs(rows, row) ==
    LET before == SelectSeq(rows, LAMBDA r : r.ts <= row.ts)
        after  == SelectSeq(rows, LAMBDA r : r.ts > row.ts)
    IN  before \o <<row>> \o after

---------------------------------------------------------------------------
(* detect_sweeps_py                                                        *)

\* ScanWindow with the window test strict (ts - base_t < window): a tick
\* exactly window_sec after the base tick is left out.
RECURSIVE ScanWindowStrictWindow(_, _, _, _, _)
ScanWindowStrictWindow(tk, base_p, base_t, w, s) ==
    IF s.j <= Len(tk) /\ tk[s.j].ts - base_t < w
    THEN LET p == tk[s.j].price
             v == tk[s.j].vol
         IN  ScanWindowStrictWindow(tk, base_p, base_t, w,
                 [j      |-> s.j + 1,
                  up_max |-> IF p > s.up_max THEN p ELSE s.up_max,
                  dn_min |-> IF p < s.dn_min THEN p ELSE s.dn_min,
                  up_vol |-> IF p >= base_p THEN s.up_vol + v ELSE s.up_vol,
                  dn_vol |-> IF p <= base_p THEN s.dn_vol + v ELSE s.dn_vol])
    ELSE s

\* ScanWindow with the up volume taken strictly above the base price: the
\* base tick's own volume is not counted.
RECURSIVE ScanWindowUpStrict(_, _, _, _, _)
ScanWindowUpStrict(tk, base_p, base_t, w, s) ==
    IF s.j <= Len(tk) /\ tk[s.j].ts - base_t <= w
    THEN LET p == tk[s.j].price
             v == tk[s.j].vol
         IN  ScanWindowUpStrict(tk, base_p, base_t, w,
                 [j      |-> s.j + 1,
                  up_max |-> IF p > s.up_max THEN p ELSE s.up_max,
                  dn_min |-> IF p < s.dn_min THEN p ELSE s.dn_min,
                  up_vol |-> IF p > base_p THEN s.up_vol + v ELSE s.up_vol,
                  dn_vol |-> IF p <= base_p THEN s.dn_vol + v ELSE s.dn_vol])
    ELSE s

\* ScanWindow with the down volume taken strictly below the base price: a
\* tick at the base price is counted on the up side only.
RECURSIVE ScanWindowDnStrict(_, _, _, _, _)
ScanWindowDnStrict(tk, base_p, base_t, w, s) ==
    IF s.j <= Len(tk) /\ tk[s.j].ts - base_t <= w
    THEN LET p == tk[s.j].price
             v == tk[s.j].vol
         IN  ScanWindowDnStrict(tk, base_p, base_t, w,
                 [j      |-> s.j + 1,
                  up_max |-> IF p > s.up_max THEN p ELSE s.up_max,
                  dn_min |-> IF p < s.dn_min THEN p ELSE s.dn_min,
                  up_vol |-> IF p >= base_p THEN s.up_vol + v ELSE s.up_vol,
                  dn_vol |-> IF p < base_p THEN s.dn_vol + v ELSE s.dn_vol])
    ELSE s

\* ScanWindow that keeps the volume of the last tick on each side instead
\* of the sum.
RECURSIVE ScanWindowLastVol(_, _, _, _, _)
ScanWindowLastVol(tk, base_p, base_t, w, s) ==
    IF s.j <= Len(tk) /\ tk[s.j].ts - base_t <= w
    THEN LET p == tk[s.j].price
             v == tk[s.j].vol
         IN  ScanWindowLastVol(tk, base_p, base_t, w,
                 [j      |-> s.j + 1,
                  up_max |-> IF p > s.up_max THEN p ELSE s.up_max,
                  dn_min |-> IF p < s.dn_min THEN p ELSE s.dn_min,
                  up_vol |-> IF p >= base_p THEN v ELSE s.up_vol,
                  dn_vol |-> IF p <= base_p THEN v ELSE s.dn_vol])
    ELSE s

\* The inner while loop (lines 65-80): s holds j, up_max, dn_min, up_vol,
\* dn_vol; the loop runs while j < n and ticks[j].ts - base_t <= window.
RECURSIVE ScanWindow(_, _, _, _, _)
ScanWindow(tk, base_p, base_t, w, s) ==
    IF s.j <= Len(tk) /\ tk[s.j].ts - base_t <= w
    THEN LET p == tk[s.j].price
             v == tk[s.j].vol
         IN  ScanWindow(tk, base_p, base_t, w,
                 [j      |-> s.j + 1,
                  up_max |-> IF p > s.up_max THEN p ELSE s.up_max,
                  dn_min |-> IF p < s.dn_min THEN p ELSE s.dn_min,
                  up_vol |-> IF p >= base_p THEN s.up_vol + v ELSE s.up_vol,
                  dn_vol |-> IF p <= base_p THEN s.dn_vol + v ELSE s.dn_vol])
    ELSE s

\* (delta / base_p) * 10000.0 >= thresh, with base_p > 0.
BpAtLeast(delta, base_p, thresh) == delta * 10000 >= thresh * base_p

\* SweepAt that flags a window in which neither side wins with an event of
\* direction 0 instead of suppressing it.
SweepAtFlagZero(tk, i, w, bp, vm) ==
    LET base_p == tk[i].price
        base_t == tk[i].ts
        s == ScanWindow(tk, base_p, base_t, w,
                 [j |-> i, up_max |-> base_p, dn_min |-> base_p,
                  up_vol |-> 0, dn_vol |-> 0])
    IN  IF BpAtLeast(s.up_max - base_p, base_p, bp) /\ s.up_vol >= vm
        THEN << [ts_start |-> base_t, ts_end |-> tk[s.j - 1].ts,
                 direction |-> 1, price_start |-> base_p,
                 price_end |-> s.up_max, volume_total |-> s.up_vol] >>
        ELSE IF BpAtLeast(base_p - s.dn_min, base_p, bp) /\ s.dn_vol >= vm
        THEN << [ts_start |-> base_t, ts_end |-> tk[s.j - 1].ts,
                 direction |-> -1, price_start |-> base_p,
                 price_end |-> s.dn_min, volume_total |-> s.dn_vol] >>
        ELSE << [ts_start |-> base_t, ts_end |-> tk[s.j - 1].ts,
                 direction |-> 0, price_start |-> base_p,
                 price_end |-> base_p, volume_total |-> s.up_vol] >>

\* SweepAt with the Down test first: Down wins when both conditions hold.
SweepAtDownFirst(tk, i, w, bp, vm) ==
    LET base_p == tk[i].price
        base_t == tk[i].ts
        s == ScanWindow(tk, base_p, base_t, w,
                 [j |-> i, up_max |-> base_p, dn_min |-> base_p,
                  up_vol |-> 0, dn_vol |-> 0])
    IN  IF BpAtLeast(base_p - s.dn_min, base_p, bp) /\ s.dn_vol >= vm
        THEN << [ts_start |-> base_t, ts_end |-> tk[s.j - 1].ts,
                 direction |-> -1, price_start |-> base_p,
                 price_end |-> s.dn_min, volume_total |-> s.dn_vol] >>
        ELSE IF BpAtLeast(s.up_max - base_p, base_p, bp) /\ s.up_vol >= vm
        THEN << [ts_start |-> base_t, ts_end |-> tk[s.j - 1].ts,
                 direction |-> 1, price_start |-> base_p,
                 price_end |-> s.up_max, volume_total |-> s.up_vol] >>
        ELSE << >>

\* One pass of the outer loop (lines 57-106) for start index i: the events
\* it appends (none or one).
SweepAt(tk, i, w, bp, vm) ==
    LET base_p == tk[i].price
        base_t == tk[i].ts
        s == ScanWindow(tk, base_p, base_t, w,
                 [j |-> i, up_max |-> base_p, dn_min |-> base_p,
                  up_vol |-> 0, dn_vol |-> 0])
    IN  IF BpAtLeast(s.up_max - base_p, base_p, bp) /\ s.up_vol >= vm
        THEN << [ts_start |-> base_t, ts_end |-> tk[s.j - 1].ts,
                 direction |-> 1, price_start |-> base_p,
                 price_end |-> s.up_max, volume_total |-> s.up_vol] >>
        ELSE IF BpAtLeast(base_p - s.dn_min, base_p, bp) /\ s.dn_vol >= vm
        THEN << [ts_start |-> base_t, ts_end |-> tk[s.j - 1].ts,
                 direction |-> -1, price_start |-> base_p,
                 price_end |-> s.dn_min, volume_total |-> s.dn_vol] >>
        ELSE << >>

\* The outer loop (lines 55-110): i from the first index to the last.
RECURSIVE DetectFrom(_, _, _, _, _, _)
DetectFrom(tk, i, w, bp, vm, acc) ==
    IF i <= Len(tk)
    THEN DetectFrom(tk, i + 1, w, bp, vm, acc \o SweepAt(tk, i, w, bp, vm))
    ELSE acc

detect_sweeps_py(tk, w, bp, vm) == DetectFrom(tk, 1, w, bp, vm, << >>)

---------------------------------------------------------------------------
(* The detector run: load_ticks, then one call of detect_sweeps_py.        *)

InitDetect ==
    /\ pc = "load"
    /\ ticks \in {<< >>, ScenarioTicks}
    /\ window_sec = 0
    /\ price_bp_thresh = 0
    /\ vol_min = 0
    /\ sweeps = << >>
    /\ res_analyze = << >>
    /\ res_offline = << >>
    /\ res_stats = [down_rets |-> << >>, up_rets |-> << >>]
    /\ RestInit

LoadTick ==
    /\ pc = "load"
    /\ Len(ticks) < MaxTicks
    /\ \E row \in TickRows : ticks' = InsertByTs(ticks, row)
    /\ UNCHANGED <<pc, window_sec, price_bp_thresh, vol_min, sweeps, evalVars>>
    /\ UNCHANGED restVars

RunDetect ==
    /\ pc = "load"
    /\ \E prm \in DetectParams :
          /\ window_sec' = prm.window_sec
          /\ price_bp_thresh' = prm.price_bp_thresh
          /\ vol_min' = prm.vol_min
          /\ sweeps' = detect_sweeps_py(ticks, prm.window_sec,
                                        prm.price_bp_thresh, prm.vol_min)
    /\ pc' = "detected"
    /\ UNCHANGED <<ticks, evalVars>>
    /\ UNCHANGED restVars

NextDetect == LoadTick \/ RunDetect

SpecDetect == InitDetect /\ [][NextDetect]_vars

---------------------------------------------------------------------------
(* The forward-outcome evaluators.                                         *)

\* a / b as the code computes it, kept exact.
Frac(a, b) == [num |-> a, den |-> b]

\* offline_analyze.load_sweeps: rows.append(...) for every row, then the
\* stable rows.sort(key=ts_end).
InsertByTsEnd(rows, row) ==
    LET before == SelectSeq(rows, LAMBDA r : r.ts_end <= row.ts_end)
        after  == SelectSeq(rows, LAMBDA r : r.ts_end > row.ts_end)
    IN  before \o <<row>> \o after

\* FirstAtOrAfter that falls back to the last tick when no tick has
\* ts >= t0, instead of None.
RECURSIVE FirstAtOrAfterOrLast(_, _, _)
FirstAtOrAfterOrLast(tk, t0, i) ==
    IF i > Len(tk) THEN Len(tk)
    ELSE IF tk[i].ts >= t0 THEN i
    ELSE FirstAtOrAfterOrLast(tk, t0, i + 1)

\* "for i in range(n): if ts[i] >= t0: i0 = i; break": the first index from
\* i on whose tick has ts >= t0, and 0 for None.
RECURSIVE FirstAtOrAfter(_, _, _)
FirstAtOrAfter(tk, t0, i) ==
    IF i > Len(tk) THEN 0
    ELSE IF tk[i].ts >= t0 THEN i
    ELSE FirstAtOrAfter(tk, t0, i + 1)

\* ScanHorizon with the horizon test strict (ts < t1): a tick exactly at
\* t1 is left out.
RECURSIVE ScanHorizonStrict(_, _, _)
ScanHorizonStrict(tk, t1, s) ==
    IF s.j <= Len(tk) /\ tk[s.j].ts < t1
    THEN LET p == tk[s.j].price
         IN  ScanHorizonStrict(tk, t1,
                 [j     |-> s.j + 1,
                  max_p |-> IF p > s.max_p THEN p ELSE s.max_p,
                  min_p |-> IF p < s.min_p THEN p ELSE s.min_p])
    ELSE s

\* ScanHorizon that keeps the last price scanned as max_p instead of the
\* running maximum.
RECURSIVE ScanHorizonLastAsMax(_, _, _)
ScanHorizonLastAsMax(tk, t1, s) ==
    IF s.j <= Len(tk) /\ tk[s.j].ts <= t1
    THEN LET p == tk[s.j].price
         IN  ScanHorizonLastAsMax(tk, t1,
                 [j     |-> s.j + 1,
                  max_p |-> p,
                  min_p |-> IF p < s.min_p THEN p ELSE s.min_p])
    ELSE s

\* "while j < n and ts[j] <= t1": s holds j, max_p, min_p.
RECURSIVE ScanHorizon(_, _, _)
ScanHorizon(tk, t1, s) ==
    IF s.j <= Len(tk) /\ tk[s.j].ts <= t1
    THEN LET p == tk[s.j].price
         IN  ScanHorizon(tk, t1,
                 [j     |-> s.j + 1,
                  max_p |-> IF p > s.max_p THEN p ELSE s.max_p,
                  min_p |-> IF p < s.min_p THEN p ELSE s.min_p])
    ELSE s

\* Outcome without the swap for a Down event: mfe_h always from the
\* maximum, mae_h always from the minimum.
OutcomeNoSwap(dir, price0, priceT, max_p, min_p) ==
    [ret_h |-> Frac(priceT - price0, price0),
     mfe_h |-> Frac(max_p - price0, price0),
     mae_h |-> Frac(min_p - price0, price0)]

\* ret_h, mfe_h, mae_h of an event of direction dir, from price0, priceT and
\* the extremes of the scan: "if ev.direction < 0: ... else: ...".
Outcome(dir, price0, priceT, max_p, min_p) ==
    [ret_h |-> Frac(priceT - price0, price0),
     mfe_h |-> IF dir < 0 THEN Frac(min_p - price0, price0)
                          ELSE Frac(max_p - price0, price0),
     mae_h |-> IF dir < 0 THEN Frac(max_p - price0, price0)
                          ELSE Frac(min_p - price0, price0)]

\* AnalyzeEvent that also skips an event whose scan took the price0 tick
\* alone.
AnalyzeEventSkipLone(tk, ev, horizon) ==
    LET t0 == ev.ts_end
        t1 == t0 + horizon
        i0 == FirstAtOrAfter(tk, t0, 1)
    IN  IF i0 = 0 THEN << >>
        ELSE LET price0 == tk[i0].price
                 s == ScanHorizon(tk, t1,
                          [j |-> i0, max_p |-> price0, min_p |-> price0])
             IN  IF s.j <= i0 + 1 THEN << >>
                 ELSE LET o == Outcome(ev.direction, price0,
                                       tk[s.j - 1].price, s.max_p, s.min_p)
                      IN  << [direction |-> ev.direction, ret_h |-> o.ret_h,
                              mfe_h |-> o.mfe_h, mae_h |-> o.mae_h,
                              volume_total |-> ev.volume_total] >>

\* analyze_sweep.compute_ret_mfe_mae, one pass of "for ev in sweeps": the
\* records it appends (none or one).
AnalyzeEvent(tk, ev, horizon) ==
    LET t0 == ev.ts_end
        t1 == t0 + horizon
        i0 == FirstAtOrAfter(tk, t0, 1)
    IN  IF i0 = 0 THEN << >>
        ELSE LET price0 == tk[i0].price
                 s == ScanHorizon(tk, t1,
                          [j |-> i0, max_p |-> price0, min_p |-> price0])
             IN  IF s.j = i0 THEN << >>
                 ELSE LET o == Outcome(ev.direction, price0,
                                       tk[s.j - 1].price, s.max_p, s.min_p)
                      IN  << [direction |-> ev.direction, ret_h |-> o.ret_h,
                              mfe_h |-> o.mfe_h, mae_h |-> o.mae_h,
                              volume_total |-> ev.volume_total] >>

RECURSIVE AnalyzeFrom(_, _, _, _, _)
AnalyzeFrom(tk, evs, k, horizon, results) ==
    IF k > Len(evs) THEN results
    ELSE AnalyzeFrom(tk, evs, k + 1, horizon,
                     results \o AnalyzeEvent(tk, evs[k], horizon))

analyze_compute_ret_mfe_mae(tk, evs, horizon) ==
    AnalyzeFrom(tk, evs, 1, horizon, << >>)

\* AdvanceIdx that also steps over the ticks at exactly t0 (ts <= t0).
RECURSIVE AdvanceIdxPastTies(_, _, _)
AdvanceIdxPastTies(tk, t0, idx) ==
    IF idx <= Len(tk) /\ tk[idx].ts <= t0
    THEN AdvanceIdxPastTies(tk, t0, idx + 1)
    ELSE idx

\* offline_analyze.compute_ret_mfe_mae: "while idx < n and
\* ticks[idx].ts < t0: idx += 1", on the pointer idx shared by all events.
RECURSIVE AdvanceIdx(_, _, _)
AdvanceIdx(tk, t0, idx) ==
    IF idx <= Len(tk) /\ tk[idx].ts < t0
    THEN AdvanceIdx(tk, t0, idx + 1)
    ELSE idx

\* offline_analyze.compute_ret_mfe_mae, "for ev in sweeps" from event k on
\* with the pointer at idx: "break" when the pointer ran off the ticks,
\* "continue" when the scan took no tick.
RECURSIVE OfflineFrom(_, _, _, _, _)
OfflineFrom(tk, evs, k, idx0, results) ==
    IF k > Len(evs) THEN results
    ELSE LET ev == evs[k]
             t0 == ev.ts_end
             t1 == t0 + T_HORIZON
             idx == AdvanceIdx(tk, t0, idx0)
         IN  IF idx > Len(tk) THEN results
             ELSE LET price0 == tk[idx].price
                      s == ScanHorizon(tk, t1,
                               [j |-> idx, max_p |-> price0, min_p |-> price0])
                  IN  IF s.j = idx
                      THEN OfflineFrom(tk, evs, k + 1, idx, results)
                      ELSE LET o == Outcome(ev.direction, price0,
                                            tk[s.j - 1].price, s.max_p, s.min_p)
                           IN  OfflineFrom(tk, evs, k + 1, idx,
                                   Append(results,
                                       [direction |-> ev.direction,
                                        ret_h |-> o.ret_h, mfe_h |-> o.mfe_h,
                                        mae_h |-> o.mae_h, price0 |-> price0]))

offline_compute_ret_mfe_mae(tk, evs) == OfflineFrom(tk, evs, 1, 1, << >>)

\* sweep_param_scan.compute_ret_stats, "for ev in sweeps" from event k on.
RECURSIVE StatsFrom(_, _, _, _, _)
StatsFrom(tk, evs, k, horizon, rets) ==
    IF k > Len(evs) THEN rets
    ELSE LET ev == evs[k]
             t0 == ev.ts_end
             t1 == t0 + horizon
             i0 == FirstAtOrAfter(tk, t0, 1)
         IN  IF i0 = 0 THEN StatsFrom(tk, evs, k + 1, horizon, rets)
             ELSE LET p0 == tk[i0].price
                      s == ScanHorizon(tk, t1,
                               [j |-> i0, max_p |-> p0, min_p |-> p0])
                  IN  IF s.j = i0
                      THEN StatsFrom(tk, evs, k + 1, horizon, rets)
                      ELSE LET ret == Frac(tk[s.j - 1].price - p0, p0)
                           IN  StatsFrom(tk, evs, k + 1, horizon,
                                   IF ev.direction < 0
                                   THEN [rets EXCEPT !.down_rets = Append(@, ret)]
                                   ELSE [rets EXCEPT !.up_rets = Append(@, ret)])

compute_ret_stats(tk, evs, horizon) ==
    StatsFrom(tk, evs, 1, horizon, [down_rets |-> << >>, up_rets |-> << >>])

---------------------------------------------------------------------------
(* An evaluation: load_ticks, load_sweeps, then one of the evaluators.     *)

InitEval ==
    /\ pc = "load"
    /\ \/ ticks = << >> /\ sweeps = << >>
       \/ ticks = EvalScenarioTicks /\ sweeps = <<EvalScenarioSweep>>
    /\ window_sec = 0
    /\ price_bp_thresh = 0
    /\ vol_min = 0
    /\ res_analyze = << >>
    /\ res_offline = << >>
    /\ res_stats = [down_rets |-> << >>, up_rets |-> << >>]
    /\ RestInit

LoadEvalTick ==
    /\ pc = "load"
    /\ Len(ticks) < MaxTicks
    /\ \E row \in EvalTickRows : ticks' = InsertByTs(ticks, row)
    /\ UNCHANGED <<pc, window_sec, price_bp_thresh, vol_min, sweeps, evalVars>>
    /\ UNCHANGED restVars

LoadSweep ==
    /\ pc = "load"
    /\ Len(sweeps) < MaxSweeps
    /\ \E row \in SweepRows : sweeps' = InsertByTsEnd(sweeps, row)
    /\ UNCHANGED <<pc, ticks, window_sec, price_bp_thresh, vol_min, evalVars>>
    /\ UNCHANGED restVars

RunAnalyze ==
    /\ pc = "load"
    /\ res_analyze' = analyze_compute_ret_mfe_mae(ticks, sweeps, T_HORIZON)
    /\ pc' = "analyzed"
    /\ UNCHANGED <<ticks, window_sec, price_bp_thresh, vol_min, sweeps,
                   res_offline, res_stats>>
    /\ UNCHANGED restVars

RunOffline ==
    /\ pc = "load"
    /\ res_offline' = offline_compute_ret_mfe_mae(ticks, sweeps)
    /\ pc' = "offline"
    /\ UNCHANGED <<ticks, window_sec, price_bp_thresh, vol_min, sweeps,
                   res_analyze, res_stats>>
    /\ UNCHANGED restVars

RunStats ==
    /\ pc = "load"
    /\ res_stats' = compute_ret_stats(ticks, sweeps, T_HORIZON)
    /\ pc' = "stats"
    /\ UNCHANGED <<ticks, window_sec, price_bp_thresh, vol_min, sweeps,
                   res_analyze, res_offline>>
    /\ UNCHANGED restVars

NextEval == LoadEvalTick \/ LoadSweep \/ RunAnalyze \/ RunOffline \/ RunStats

SpecEval == InitEval /\ [][NextEval]_vars

---------------------------------------------------------------------------
(* What the detector is to compute, stated on sets of indices rather than  *)
(* as loops.  These definitions are used by the properties only.           *)

\* The window of start index i: the indices from i on that the scan takes
\* while ts[j] - ts[i] <= window_sec.
Window(i) ==
    {j \in i .. Len(ticks) :
        \A k \in i .. j : ticks[k].ts - ticks[i].ts <= window_sec}

MaxOf(S) == CHOOSE x \in S : \A y \in S : y <= x
MinOf(S) == CHOOSE x \in S : \A y \in S : x <= y

RECURSIVE VolOf(_)
VolOf(S) ==
    IF S = {} THEN 0
    ELSE LET j == CHOOSE x \in S : TRUE IN ticks[j].vol + VolOf(S \ {j})

WinMax(i) == MaxOf({ticks[j].price : j \in Window(i)})
WinMin(i) == MinOf({ticks[j].price : j \in Window(i)})
WinUpVol(i) == VolOf({j \in Window(i) : ticks[j].price >= ticks[i].price})
WinDnVol(i) == VolOf({j \in Window(i) : ticks[j].price <= ticks[i].price})

UpCond(i) ==
    /\ (WinMax(i) - ticks[i].price) * 10000 >= price_bp_thresh * ticks[i].price
    /\ WinUpVol(i) >= vol_min
DnCond(i) ==
    /\ (ticks[i].price - WinMin(i)) * 10000 >= price_bp_thresh * ticks[i].price
    /\ WinDnVol(i) >= vol_min

\* The start indices that emit, and the place in the result of the event of
\* an emitting index: events come in increasing order of start index.
Emitting == {i \in 1 .. Len(ticks) : UpCond(i) \/ DnCond(i)}
PlaceIn(em, i) == Cardinality({k \in em : k <= i})

UpEvent(i) ==
    [ts_start |-> ticks[i].ts, ts_end |-> ticks[MaxOf(Window(i))].ts,
     direction |-> 1, price_start |-> ticks[i].price,
     price_end |-> WinMax(i), volume_total |-> WinUpVol(i)]
DnEvent(i) ==
    [ts_start |-> ticks[i].ts, ts_end |-> ticks[MaxOf(Window(i))].ts,
     direction |-> -1, price_start |-> ticks[i].price,
     price_end |-> WinMin(i), volume_total |-> WinDnVol(i)]

Detected == pc = "detected"

---------------------------------------------------------------------------
(* Properties of the detector, checked under SpecDetect.                   *)

\* C1: every event detect_sweeps_py returns has ts_start <= ts_end and a
\* direction of +1 or -1; no event of direction 0 is in the result.
C1_EventsWellFormed ==
    Detected =>
        \A k \in 1 .. Len(sweeps) :
            /\ sweeps[k].ts_start <= sweeps[k].ts_end
            /\ sweeps[k].direction \in {1, -1}

\* C1 witness: a run that returned an Up and a Down event, one of them
\* spanning more than one timestamp.
C1_Witness ==
    /\ Detected
    /\ \E k \in 1 .. Len(sweeps) : sweeps[k].direction = 1
    /\ \E k \in 1 .. Len(sweeps) :
          sweeps[k].direction = -1 /\ sweeps[k].ts_start < sweeps[k].ts_end

\* C2: at most one event per start index, in increasing order of start
\* index: the result holds exactly one event for every emitting index, at
\* that index's place; where the Up and the Down condition both hold the
\* one event is the Up event.
C2_OneEventPerIndexUpFirst ==
    Detected =>
        LET em == Emitting IN
        /\ Len(sweeps) = Cardinality(em)
        /\ \A i \in em :
              LET ev == sweeps[PlaceIn(em, i)] IN
              /\ ev.ts_start = ticks[i].ts
              /\ ev.price_start = ticks[i].price
              /\ (UpCond(i) /\ DnCond(i)) => ev.direction = 1

\* C2 witness: a run over a start index at which both conditions hold,
\* followed by a later emitting index and by one that emits nothing.
C2_Witness ==
    /\ Detected
    /\ LET em == Emitting IN
       /\ \E i \in em :
             /\ UpCond(i) /\ DnCond(i)
             /\ sweeps[PlaceIn(em, i)].direction = 1
             /\ \E k \in em : k > i /\ sweeps[PlaceIn(em, k)].direction = -1
       /\ \E i \in 1 .. Len(ticks) : i \notin em

\* C3: for each start index, an Up event with the window's fields is
\* emitted exactly when the Up condition holds, a Down event with the
\* symmetric fields exactly when the Up condition fails and the Down
\* condition holds, and otherwise none.
C3_EventsAreTheWindowEvents ==
    Detected =>
        LET em == Emitting IN
        /\ Len(sweeps) = Cardinality(em)
        /\ \A i \in em :
              sweeps[PlaceIn(em, i)] =
                  IF UpCond(i) THEN UpEvent(i) ELSE DnEvent(i)

\* C3 witness: a run that returned a Down event whose window holds several
\* ticks, one of them at the base price, and skipped another start index.
C3_Witness ==
    /\ Detected
    /\ LET em == Emitting IN
       /\ \E i \in em :
             /\ ~UpCond(i)
             /\ Cardinality(Window(i)) >= 3
             /\ \E j \in Window(i) : j # i /\ ticks[j].price = ticks[i].price
             /\ sweeps[PlaceIn(em, i)].direction = -1
       /\ \E i \in 1 .. Len(ticks) : i \notin em

ScenarioRun ==
    /\ Detected
    /\ ticks = ScenarioTicks
    /\ window_sec = ScenarioParams.window_sec
    /\ price_bp_thresh = ScenarioParams.price_bp_thresh
    /\ vol_min = ScenarioParams.vol_min

\* C4: on the scenario's ticks and parameters the detector returns exactly
\* one event, the Up event of start index 0 with price_start 100,
\* price_end 101.6 and volume_total 6 (prices in units of 0.1).
C4_ScenarioOneUpEvent ==
    ScenarioRun =>
        /\ Len(sweeps) = 1
        /\ sweeps[1].direction = 1
        /\ sweeps[1].ts_start = 0
        /\ sweeps[1].price_start = 1000
        /\ sweeps[1].price_end = 1016
        /\ sweeps[1].volume_total = 6

\* C4 witness: the scenario has been run.
C4_Witness == ScenarioRun /\ Len(sweeps) = 1

---------------------------------------------------------------------------
(* What the evaluators are to compute, stated on sets of tick indices.     *)
(* These definitions are used by the properties only.                      *)

\* The ticks at or after the event's end, and those of them within the
\* horizon [t0, t1] = [ts_end, ts_end + T_HORIZON].
AtOrAfter(ev) == {j \in 1 .. Len(ticks) : ticks[j].ts >= ev.ts_end}
InHorizon(ev) == {j \in AtOrAfter(ev) : ticks[j].ts <= ev.ts_end + T_HORIZON}

\* The price0 tick is the first tick at or after the event's end; the
\* event is scored when a tick lies within its horizon.
Price0Idx(ev) == MinOf(AtOrAfter(ev))
HasTickInHorizon(ev) == InHorizon(ev) # {}
HasOtherTickInHorizon(ev) ==
    \E j \in InHorizon(ev) : j # Price0Idx(ev)

SpecPrice0(ev) == ticks[Price0Idx(ev)].price
SpecPriceT(ev) == ticks[MaxOf(InHorizon(ev))].price
SpecMaxPrice(ev) == MaxOf({ticks[j].price : j \in InHorizon(ev)})
SpecMinPrice(ev) == MinOf({ticks[j].price : j \in InHorizon(ev)})

ScoredIdx == {k \in 1 .. Len(sweeps) : HasTickInHorizon(sweeps[k])}

Evaluated == pc \in {"analyzed", "offline", "stats"}

\* The number of outcome records the evaluator that ran has returned.
NRecords ==
    IF pc = "analyzed" THEN Len(res_analyze)
    ELSE IF pc = "offline" THEN Len(res_offline)
    ELSE Len(res_stats.down_rets) + Len(res_stats.up_rets)

\* A record of compute_ret_mfe_mae has the claimed ret_h, mfe_h and mae_h
\* of event ev.
HasClaimedOutcome(r, ev) ==
    LET p0 == SpecPrice0(ev) IN
    /\ r.direction = ev.direction
    /\ r.ret_h = Frac(SpecPriceT(ev) - p0, p0)
    /\ ev.direction = 1 =>
          /\ r.mfe_h = Frac(SpecMaxPrice(ev) - p0, p0)
          /\ r.mae_h = Frac(SpecMinPrice(ev) - p0, p0)
    /\ ev.direction = -1 =>
          /\ r.mfe_h = Frac(SpecMinPrice(ev) - p0, p0)
          /\ r.mae_h = Frac(SpecMaxPrice(ev) - p0, p0)

RecordsHaveClaimedOutcome(results) ==
    LET sc == ScoredIdx IN
    /\ Len(results) = Cardinality(sc)
    /\ \A k \in sc : HasClaimedOutcome(results[PlaceIn(sc, k)], sweeps[k])

\* The quotient f has the value a / b (b > 0; f.den is a price, > 0).
FracIs(f, a, b) == f.num * b = a * f.den

---------------------------------------------------------------------------
(* Properties of the evaluators, checked under SpecEval.                   *)

\* C5: every record of compute_ret_mfe_mae (both variants) has
\* ret_h = (priceT - price0) / price0, and mfe_h / mae_h from the maximum /
\* minimum for an Up event and from the minimum / maximum for a Down event,
\* price0 being the first tick at or after ts_end and the extremes and
\* priceT taken over the ticks from there on up to ts_end + horizon.
C5_OutcomeFormulas ==
    /\ pc = "analyzed" => RecordsHaveClaimedOutcome(res_analyze)
    /\ pc = "offline" => RecordsHaveClaimedOutcome(res_offline)

\* C5 witness: the forward-pointer variant has scored an Up and a Down
\* event, the Down event behind the Up event, over a horizon whose prices
\* go above and below price0.
C5_Witness ==
    /\ pc = "offline"
    /\ Len(res_offline) = 2
    /\ res_offline[1].direction = 1
    /\ res_offline[2].direction = -1
    /\ res_offline[2].mfe_h.num < 0
    /\ res_offline[2].mae_h.num > 0
    /\ res_offline[2].ret_h.num # 0

EvalScenarioRun ==
    /\ pc = "analyzed"
    /\ ticks = EvalScenarioTicks
    /\ sweeps = <<EvalScenarioSweep>>

\* C6: on the scenario (Up event, ts_end = 10, ticks at 10 / 20 / 40 s with
\* prices 100 / 102 / 99, horizon 30) analyze_sweep.compute_ret_mfe_mae
\* returns exactly one record, with price0 = 100, priceT = 99,
\* ret_h = -0.01, mfe_h = 0.02 and mae_h = -0.01.
C6_ScenarioRecord ==
    EvalScenarioRun =>
        /\ Len(res_analyze) = 1
        /\ res_analyze[1].ret_h.den = 100
        /\ res_analyze[1].ret_h.num = 99 - 100
        /\ FracIs(res_analyze[1].ret_h, -1, 100)
        /\ FracIs(res_analyze[1].mfe_h, 2, 100)
        /\ FracIs(res_analyze[1].mae_h, -1, 100)

\* C6 witness: the scenario has been evaluated.
C6_Witness == EvalScenarioRun /\ Len(res_analyze) = 1

C9_UnevaluatedAreCounted == Evaluated => NRecords = Len(sweeps)

\* C10: an event of direction 0 is never scored: no outcome record has
\* direction 0, and the Up and Down return sets hold returns of Up and
\* Down events only.
C10_DirectionZeroNeverScored ==
    /\ pc = "analyzed" =>
          \A n \in 1 .. Len(res_analyze) : res_analyze[n].direction # 0
    /\ pc = "offline" =>
          \A n \in 1 .. Len(res_offline) : res_offline[n].direction # 0
    /\ pc = "stats" =>
          /\ Len(res_stats.up_rets) <=
                Cardinality({k \in 1 .. Len(sweeps) : sweeps[k].direction > 0})
          /\ Len(res_stats.down_rets) <=
                Cardinality({k \in 1 .. Len(sweeps) : sweeps[k].direction < 0})

---------------------------------------------------------------------------
(* The consumers of the streaming engine.  SweepModel and                  *)
(* MeanReversionStrategy come from the compiled module sweep_core: the     *)
(* engine is what it returns (a signal, and with a signal the last event,  *)
(* whose direction is +1, -1 or 0 for a both-sided spike), the strategy is *)
(* the action it returns.  Each consumer is one script; pc names the       *)
(* script that runs, and one step handles one trade or one tick row.       *)

\* most ticks fed to the engine in one run
MaxFed == 2

Modes == {"paper", "live"}
Consumers == {"live", "backtest", "ws_test", "generate"}

\* process_tick's return value and, with a signal, get_last_event()
EngineEvents ==
    [ts_start : {0}, ts_end : {10}, direction : Directions,
     price_start : {100}, price_end : {100}, volume_total : {7}]
EngineOutputs ==
    {[sig |-> "NoSignal"]} \cup [sig : {"Sweep"}, ev : EngineEvents]

\* what strategy.on_sweep and strategy.on_tick return
ActPrices == {100, 102}
StrategyActions ==
    {[type |-> "Idle", price |-> 100, dir |-> 0]}
    \cup [type : {"OpenLong"}, price : ActPrices, dir : {1}]
    \cup [type : {"OpenShort"}, price : ActPrices, dir : {-1}]
    \cup [type : {"Close"}, price : ActPrices, dir : {-1, 1}]

\* live_bybit_strategy.handle_action on the globals st.  An order that
\* place_order_live or close_position_live is called for is appended to
\* st.orders.
handle_action(st, act, md) ==
    IF act.type = "Idle" THEN st
    ELSE IF act.type = "OpenLong" THEN
        [st EXCEPT
            !.orders = IF md = "live" /\ st.current_pos_dir = 0
                       THEN Append(@, [op |-> "open", direction |-> 1,
                                       price |-> act.price])
                       ELSE @,
            !.current_pos_dir = 1,
            !.entry_price_track = act.price]
    ELSE IF act.type = "OpenShort" THEN
        [st EXCEPT
            !.orders = IF md = "live" /\ st.current_pos_dir = 0
                       THEN Append(@, [op |-> "open", direction |-> -1,
                                       price |-> act.price])
                       ELSE @,
            !.current_pos_dir = -1,
            !.entry_price_track = act.price]
    ELSE IF act.type = "Close" THEN
        LET marked == st.entry_price_track # 0 /\ st.current_pos_dir # 0
            pnl == (act.price - st.entry_price_track) * st.current_pos_dir
        IN  [st EXCEPT
                !.cum_pnl = IF marked THEN @ + pnl ELSE @,
                !.win_count = IF marked /\ pnl > 0 THEN @ + 1 ELSE @,
                !.loss_count = IF marked /\ pnl < 0 THEN @ + 1 ELSE @,
                !.orders = IF md = "live" /\ st.current_pos_dir # 0
                           THEN Append(@, [op |-> "close",
                                           direction |-> act.dir,
                                           price |-> act.price])
                           ELSE @,
                !.current_pos_dir = 0,
                !.entry_price_track = 0]
    ELSE st

\* offline_backtest.main, the branch "Close and current_dir != 0 and
\* entry_price is not None" (the same code after on_sweep and after on_tick)
BacktestClose(b, act) ==
    IF act.type = "Close" /\ b.current_dir # 0 /\ b.entry_price # 0
    THEN LET pnl == (act.price - b.entry_price) * b.current_dir
         IN  [b EXCEPT !.cum_pnl = @ + pnl,
                       !.wins = IF pnl > 0 THEN @ + 1 ELSE @,
                       !.losses = IF pnl < 0 THEN @ + 1 ELSE @,
                       !.current_dir = 0,
                       !.entry_price = 0,
                       !.close_cnt = @ + 1]
    ELSE b

\* offline_backtest.main, the handling of the action on_sweep returned
BacktestOnSweepAct(b, act) ==
    IF act.type = "OpenLong" THEN
        [b EXCEPT !.current_dir = 1, !.entry_price = act.price,
                  !.open_cnt = @ + 1]
    ELSE IF act.type = "OpenShort" THEN
        [b EXCEPT !.current_dir = -1, !.entry_price = act.price,
                  !.open_cnt = @ + 1]
    ELSE BacktestClose(b, act)

InitConsume ==
    /\ pc \in Consumers
    /\ mode \in Modes
    /\ PipelineInit
    /\ DriverInit
    /\ ConsumerInit
    /\ ProbeInit

\* live_bybit_strategy.on_message, one trade of the message
LiveOnTrade ==
    /\ pc = "live"
    /\ n_fed < MaxFed
    /\ \E out \in EngineOutputs, act_from_sweep \in StrategyActions,
          act_from_tick \in StrategyActions :
          LET signalled == out.sig # "NoSignal"
              st1 == IF signalled
                     THEN handle_action(live, act_from_sweep, mode)
                     ELSE live
          IN  /\ engine_events' = IF signalled
                                  THEN Append(engine_events, out.ev)
                                  ELSE engine_events
              /\ on_sweep_calls' = IF signalled
                                   THEN Append(on_sweep_calls, out.ev)
                                   ELSE on_sweep_calls
              /\ live' = handle_action(st1, act_from_tick, mode)
    /\ n_fed' = n_fed + 1
    /\ UNCHANGED <<pc, mode, backtest, sweep_log, tick_log, pipelineVars,
                   probeVars>>
    /\ UNCHANGED driverVars

\* offline_backtest.main, one tick of load_ticks
BacktestTick ==
    /\ pc = "backtest"
    /\ n_fed < MaxFed
    /\ \E out \in EngineOutputs, act \in StrategyActions,
          act_tick \in StrategyActions :
          LET signalled == out.sig # "NoSignal"
              b1 == IF signalled
                    THEN BacktestOnSweepAct(
                             [backtest EXCEPT !.sweep_cnt = @ + 1], act)
                    ELSE backtest
          IN  /\ engine_events' = IF signalled
                                  THEN Append(engine_events, out.ev)
                                  ELSE engine_events
              /\ on_sweep_calls' = IF signalled
                                   THEN Append(on_sweep_calls, out.ev)
                                   ELSE on_sweep_calls
              /\ backtest' = BacktestClose(b1, act_tick)
    /\ n_fed' = n_fed + 1
    /\ UNCHANGED <<pc, mode, live, sweep_log, tick_log, pipelineVars,
                   probeVars>>
    /\ UNCHANGED driverVars

\* ws_test.on_message, one trade of the message
WsTestOnTrade ==
    /\ pc = "ws_test"
    /\ n_fed < MaxFed
    /\ tick_log' = tick_log + 1
    /\ \E out \in EngineOutputs :
          LET signalled == out.sig # "NoSignal"
          IN  /\ engine_events' = IF signalled
                                  THEN Append(engine_events, out.ev)
                                  ELSE engine_events
              /\ sweep_log' = IF signalled /\ out.ev.direction # 0
                              THEN Append(sweep_log, out.ev)
                              ELSE sweep_log
    /\ n_fed' = n_fed + 1
    /\ UNCHANGED <<pc, mode, on_sweep_calls, live, backtest, pipelineVars,
                   probeVars>>
    /\ UNCHANGED driverVars

\* analyze_sweep.generate_sweeps_from_ticks, one row of the tick file
GenerateSweepsRow ==
    /\ pc = "generate"
    /\ n_fed < MaxFed
    /\ \E out \in EngineOutputs :
          LET signalled == out.sig # "NoSignal"
          IN  /\ engine_events' = IF signalled
                                  THEN Append(engine_events, out.ev)
                                  ELSE engine_events
              /\ sweeps' = IF signalled /\ out.ev.direction # 0
                           THEN Append(sweeps, out.ev)
                           ELSE sweeps
    /\ n_fed' = n_fed + 1
    /\ UNCHANGED <<pc, mode, on_sweep_calls, live, backtest, sweep_log,
                   tick_log, ticks, window_sec, price_bp_thresh, vol_min,
                   evalVars, probeVars>>
    /\ UNCHANGED driverVars

NextConsume ==
    LiveOnTrade \/ BacktestTick \/ WsTestOnTrade \/ GenerateSweepsRow

SpecConsume == InitConsume /\ [][NextConsume]_vars

IsDirectional(ev) == ev.direction # 0

\* C11: every consumer of the streaming engine skips a signalled event of
\* direction 0: it is not handed to strategy.on_sweep, not counted as a
\* sweep, not written to the sweep log and not added to the sweep list
\* that is evaluated.
C11_DirectionZeroSkipped ==
    /\ \A k \in 1 .. Len(on_sweep_calls) : on_sweep_calls[k].direction # 0
    /\ backtest.sweep_cnt <= Len(SelectSeq(engine_events, IsDirectional))
    /\ \A k \in 1 .. Len(sweep_log) : sweep_log[k].direction # 0
    /\ pc = "generate" =>
          \A k \in 1 .. Len(sweeps) : sweeps[k].direction # 0

---------------------------------------------------------------------------
(* orderbook_probe.AggFlowTracker.  A timestamp is a whole number of       *)
(* seconds, a volume a whole number of lots; buy_share is the pair         *)
(* Frac(buy, total).  run_probe builds the tracker with the windows        *)
(* [1.0, 3.0, 10.0]; self.windows is that list sorted.                     *)

\* most add_trade calls in one run
MaxTrades == 3

FlowWindows == <<1, 3, 10>>
WindowSet == {FlowWindows[n] : n \in 1 .. Len(FlowWindows)}

\* The timestamps of trades (the exchange's clock) and of summaries (the
\* local clock, now_ts()): the two are not ordered with respect to each
\* other, and the trade timestamps arrive in any order.  The ages they
\* make are 0, 1, 2, 3, 8, 10, 11 and 13 seconds.
FlowTs == {0, 3, 11}
NowValues == {1, 11, 13}
FlowVols == {0, 2}
Sides == {"Buy", "Sell"}

\* add_trade: direction = 1 if side.lower().startswith("b") else -1
SideDirection(side) == IF side = "Buy" THEN 1 ELSE -1

RECURSIVE _prune(_, _)
_prune(tr, ts_now) ==
    LET cutoff == ts_now - FlowWindows[Len(FlowWindows)]
    IN  IF tr # << >> /\ Head(tr).ts < cutoff
        THEN _prune(Tail(tr), ts_now)
        ELSE tr

add_trade(tr, ts, side, vol) ==
    _prune(Append(tr, [ts |-> ts, dir |-> SideDirection(side), vol |-> vol]),
           ts)

\* summary, the loop over self.trades from index k on: every window the
\* observation's age fits in takes its volume on the buy or the sell side.
RECURSIVE Accumulate(_, _, _, _)
Accumulate(stats, tr, k, ts_now) ==
    IF k > Len(tr) THEN stats
    ELSE LET age == ts_now - tr[k].ts
             next == [w \in DOMAIN stats |->
                        IF age <= w
                        THEN IF tr[k].dir > 0
                             THEN [stats[w] EXCEPT !.buy = @ + tr[k].vol]
                             ELSE [stats[w] EXCEPT !.sell = @ + tr[k].vol]
                        ELSE stats[w]]
         IN  Accumulate(next, tr, k + 1, ts_now)

\* a plausible slip: the share is taken without the total > 0 test
WindowStatsNoGuard(buy, sell) ==
    [buy |-> buy, sell |-> sell, total |-> buy + sell,
     buy_share |-> Frac(buy, buy + sell), net |-> buy - sell]

\* summary, the entry of one window
WindowStats(buy, sell) ==
    LET total == buy + sell
    IN  [buy |-> buy, sell |-> sell, total |-> total,
         buy_share |-> IF total > 0 THEN Frac(buy, total) ELSE Frac(0, 1),
         net |-> buy - sell]

\* summary(ts_now) on the observations tr: what it returns
summary(tr, ts_now) ==
    LET kept == _prune(tr, ts_now)
        stats == Accumulate([w \in WindowSet |-> [buy |-> 0, sell |-> 0]],
                            kept, 1, ts_now)
    IN  [w \in WindowSet |-> WindowStats(stats[w].buy, stats[w].sell)]

InitFlow ==
    /\ pc = "probe"
    /\ mode = "paper"
    /\ PipelineInit
    /\ DriverInit
    /\ ConsumerInit
    /\ ProbeInit

AddTrade ==
    /\ Len(recorded) < MaxTrades
    /\ \E ts \in FlowTs, side \in Sides, vol \in FlowVols :
          /\ trades' = add_trade(trades, ts, side, vol)
          /\ recorded' = Append(recorded, [ts |-> ts,
                                           dir |-> SideDirection(side),
                                           vol |-> vol])
          /\ flow_call' = [op |-> "add_trade", ts |-> ts]
    /\ UNCHANGED <<pc, flow_ret, pipelineVars, consumerVars, bookVars,
                   runVars>>
    /\ UNCHANGED driverVars

Summary ==
    /\ \E ts_now \in NowValues :
          /\ trades' = _prune(trades, ts_now)
          /\ flow_ret' = summary(trades, ts_now)
          /\ flow_call' = [op |-> "summary", ts |-> ts_now]
    /\ UNCHANGED <<pc, recorded, pipelineVars, consumerVars, bookVars,
                   runVars>>
    /\ UNCHANGED driverVars

NextFlow == AddTrade \/ Summary

SpecFlow == InitFlow /\ [][NextFlow]_vars

---------------------------------------------------------------------------
(* Properties of AggFlowTracker, checked under SpecFlow.                   *)

MaxWindow == FlowWindows[Len(FlowWindows)]

\* the add_trade timestamps so far are non-decreasing
InOrder(obs) ==
    \A k \in 1 .. Len(obs) - 1 : obs[k].ts <= obs[k + 1].ts

\* the volume of the observations of obs, from index k on, that have
\* direction d and an age of at most w at ts_now
RECURSIVE VolumeWithin(_, _, _, _, _)
VolumeWithin(obs, k, d, ts_now, w) ==
    IF k > Len(obs) THEN 0
    ELSE (IF obs[k].dir = d /\ ts_now - obs[k].ts <= w THEN obs[k].vol ELSE 0)
         + VolumeWithin(obs, k + 1, d, ts_now, w)

\* C12: after every add_trade(ts, ...) and every summary(ts_now), no
\* retained observation is older, at the timestamp of that call, than the
\* largest configured window.
C12_NoRetainedOlderThanMaxWindow ==
    flow_call.op # "none" =>
        \A k \in 1 .. Len(trades) : flow_call.ts - trades[k].ts <= MaxWindow

\* C13: in every result of summary and for every window, buy_share is a
\* quotient with a non-zero divisor, lies in [0, 1], equals
\* buy / (buy + sell) when buy + sell > 0 and is 0 when buy + sell = 0;
\* total = buy + sell and net = buy - sell.
C13_ShareTotalNet ==
    flow_call.op = "summary" =>
        \A w \in DOMAIN flow_ret :
            LET s == flow_ret[w]
            IN  /\ s.buy_share.den > 0
                /\ 0 <= s.buy_share.num
                /\ s.buy_share.num <= s.buy_share.den
                /\ s.buy + s.sell > 0 =>
                       FracIs(s.buy_share, s.buy, s.buy + s.sell)
                /\ s.buy + s.sell = 0 => s.buy_share.num = 0
                /\ s.total = s.buy + s.sell
                /\ s.net = s.buy - s.sell

\* a summary with trades on both sides of one window, and a summary of a
\* window whose trades all have volume 0
C13_Witness ==
    /\ flow_call.op = "summary"
    /\ \E w \in DOMAIN flow_ret :
          /\ flow_ret[w].buy > 0
          /\ flow_ret[w].sell > 0
    /\ \E w \in DOMAIN flow_ret :
          /\ flow_ret[w].total = 0
          /\ \E k \in 1 .. Len(trades) : flow_call.ts - trades[k].ts <= w
                                         /\ flow_call.ts >= trades[k].ts

\* C14: after add_trade calls with non-decreasing timestamps, summary(now)
\* returns for every window w the volume of all recorded buy trades with
\* now - ts <= w as buy and of all such sell trades as sell.
C14_SummaryIsWindowSum ==
    (flow_call.op = "summary" /\ InOrder(recorded)) =>
        \A w \in DOMAIN flow_ret :
            /\ flow_ret[w].buy = VolumeWithin(recorded, 1, 1, flow_call.ts, w)
            /\ flow_ret[w].sell = VolumeWithin(recorded, 1, -1, flow_call.ts, w)

---------------------------------------------------------------------------
(* orderbook_probe.OrderBookL2.  A message carries its levels as lists     *)
(* "b" and "a" of [price, size] pairs; a missing list reads as the empty   *)
(* list (book.get("b", [])).  float(p) and float(s) are the numbers the    *)
(* strings denote; a price is a whole number of price units, a size a      *)
(* whole number of lots.  As in the exchange's order-book stream, one      *)
(* list names a price at most once.  last_ts is written and never read;    *)
(* the model has one value for the clock.                                  *)

BookPrices == {100, 101}
\* the sizes a bid entry and an ask entry may carry: 0 deletes the level
BidSizes == {0, 2, 5}
AskSizes == {0, 5}
\* the value now_ts() returns while messages arrive
BookNow == {1}

\* the [price, size] lists of one side of one message, sizes from S
LevelLists(S) ==
    {<< >>}
    \cup {<<<<p, sz>>>> : p \in BookPrices, sz \in S}
    \cup {<<<<100, s1>>, <<101, s2>>>> : s1 \in S \ {2}, s2 \in S \ {2}}

BookMsgs ==
    [type : {"snapshot", "delta"}, b : LevelLists(BidSizes),
     a : LevelLists(AskSizes)]

\* d[p] = s
Put(d, p, s) == [q \in DOMAIN d \cup {p} |-> IF q = p THEN s ELSE d[q]]
\* d.pop(p, None)
Pop(d, p) == [q \in DOMAIN d \ {p} |-> d[q]]

\* apply_snapshot: {float(p): float(s) for p, s in levels if float(s) > 0},
\* from index k on
RECURSIVE SnapshotSide(_, _, _)
SnapshotSide(levels, k, d) ==
    IF k > Len(levels) THEN d
    ELSE SnapshotSide(levels, k + 1,
             IF levels[k][2] > 0 THEN Put(d, levels[k][1], levels[k][2])
             ELSE d)

\* a plausible slip: a level with size 0 is stored instead of removed
DeltaLevelKeepZero(d, price, size) ==
    IF size < 0 THEN Pop(d, price) ELSE Put(d, price, size)

\* apply_delta, one entry of a list
DeltaLevel(d, price, size) ==
    IF size <= 0 THEN Pop(d, price) ELSE Put(d, price, size)

\* apply_delta, the loop over one list from index k on
RECURSIVE DeltaSide(_, _, _)
DeltaSide(levels, k, d) ==
    IF k > Len(levels) THEN d
    ELSE DeltaSide(levels, k + 1, DeltaLevel(d, levels[k][1], levels[k][2]))

\* a plausible slip: the snapshot is merged into the book it should replace
apply_snapshot_merge(bk, data) ==
    [bids |-> SnapshotSide(data.b, 1, bk.bids),
     asks |-> SnapshotSide(data.a, 1, bk.asks)]

apply_snapshot(bk, data) ==
    [bids |-> SnapshotSide(data.b, 1, EmptyDict),
     asks |-> SnapshotSide(data.a, 1, EmptyDict)]

\* a plausible slip: the ask list is applied to the bid map as well
apply_delta_one_map(bk, data) ==
    [bids |-> DeltaSide(data.a, 1, DeltaSide(data.b, 1, bk.bids)),
     asks |-> DeltaSide(data.a, 1, bk.asks)]

apply_delta(bk, data) ==
    [bids |-> DeltaSide(data.b, 1, bk.bids),
     asks |-> DeltaSide(data.a, 1, bk.asks)]

Book == [bids |-> bids, asks |-> asks]

InitBook ==
    /\ pc = "probe"
    /\ mode = "paper"
    /\ PipelineInit
    /\ DriverInit
    /\ ConsumerInit
    /\ ProbeInit

\* apply_snapshot(data), called by run_probe.on_message for an orderbook
\* message of type snapshot
ApplySnapshot ==
    /\ \E data \in BookMsgs :
          /\ data.type = "snapshot"
          /\ bids' = apply_snapshot(Book, data).bids
          /\ asks' = apply_snapshot(Book, data).asks
          /\ book_msg' = data
    /\ \E t \in BookNow : last_ts' = t
    /\ book_prev' = Book
    /\ UNCHANGED <<pc, book_ret, pipelineVars, consumerVars, flowVars, runVars>>
    /\ UNCHANGED driverVars

\* apply_delta(data), called by run_probe.on_message for an orderbook
\* message of any other type
ApplyDelta ==
    /\ \E data \in BookMsgs :
          /\ data.type = "delta"
          /\ bids' = apply_delta(Book, data).bids
          /\ asks' = apply_delta(Book, data).asks
          /\ book_msg' = data
    /\ \E t \in BookNow : last_ts' = t
    /\ book_prev' = Book
    /\ UNCHANGED <<pc, book_ret, pipelineVars, consumerVars, flowVars, runVars>>
    /\ UNCHANGED driverVars

NextBook == ApplySnapshot \/ ApplyDelta

SpecBook == InitBook /\ [][NextBook]_vars

---------------------------------------------------------------------------
(* Properties of OrderBookL2, checked under SpecBook.                      *)

Listed(levels) == {levels[k] : k \in 1 .. Len(levels)}
ListedPrices(levels) == {levels[k][1] : k \in 1 .. Len(levels)}

\* the size of the level at price p of the map d; 0 when d has no such level
SizeAt(d, p) == IF p \in DOMAIN d THEN d[p] ELSE 0

\* every entry of the list removes a price the map d does not hold
OnlyAbsentRemovals(levels, d) ==
    \A l \in Listed(levels) : l[2] <= 0 /\ l[1] \notin DOMAIN d

\* C15: after any sequence of snapshots and deltas every level of the bid
\* and the ask map has size > 0; a delta entry with size <= 0 removes its
\* level; removing a price that is absent leaves the map as it was.
C15_LevelsPositive ==
    /\ \A p \in DOMAIN bids : bids[p] > 0
    /\ \A p \in DOMAIN asks : asks[p] > 0
    /\ book_msg.type = "delta" =>
          /\ \A l \in Listed(book_msg.b) :
                l[2] <= 0 => l[1] \notin DOMAIN bids
          /\ \A l \in Listed(book_msg.a) :
                l[2] <= 0 => l[1] \notin DOMAIN asks
          /\ OnlyAbsentRemovals(book_msg.b, book_prev.bids) =>
                bids = book_prev.bids
          /\ OnlyAbsentRemovals(book_msg.a, book_prev.asks) =>
                asks = book_prev.asks

\* a delta that removes a bid level the book held and names an ask price
\* the book did not hold, with another ask level in the book
C15_Witness ==
    /\ book_msg.type = "delta"
    /\ \E l \in Listed(book_msg.b) :
          l[2] <= 0 /\ l[1] \in DOMAIN book_prev.bids
    /\ book_msg.a # << >>
    /\ OnlyAbsentRemovals(book_msg.a, book_prev.asks)
    /\ asks # EmptyDict

\* C16: after apply_snapshot the bid and ask maps hold exactly the
\* snapshot's levels of size > 0, each with its size, and nothing else.
C16_SnapshotReplaces ==
    book_msg.type = "snapshot" =>
        /\ DOMAIN bids = {l[1] : l \in {m \in Listed(book_msg.b) : m[2] > 0}}
        /\ DOMAIN asks = {l[1] : l \in {m \in Listed(book_msg.a) : m[2] > 0}}
        /\ \A l \in Listed(book_msg.b) : l[2] > 0 => bids[l[1]] = l[2]
        /\ \A l \in Listed(book_msg.a) : l[2] > 0 => asks[l[1]] = l[2]

\* a snapshot with a bid level of size > 0 and one of size 0 that the book
\* held, applied to a book with an ask level the snapshot does not list
C16_Witness ==
    /\ book_msg.type = "snapshot"
    /\ \E l \in Listed(book_msg.b) : l[2] = 0 /\ l[1] \in DOMAIN book_prev.bids
    /\ \E l \in Listed(book_msg.b) : l[2] > 0
    /\ DOMAIN book_prev.asks \ ListedPrices(book_msg.a) # {}

\* C17: apply_delta changes only the levels it lists: a listed level with
\* size > 0 has exactly that size afterwards, a level that is not listed
\* keeps its size (or its absence); a delta that lists bids only leaves the
\* asks as they were, and one that lists asks only leaves the bids.
C17_DeltaFrame ==
    book_msg.type = "delta" =>
        /\ \A l \in Listed(book_msg.b) : l[2] > 0 => SizeAt(bids, l[1]) = l[2]
        /\ \A l \in Listed(book_msg.a) : l[2] > 0 => SizeAt(asks, l[1]) = l[2]
        /\ \A p \in (DOMAIN bids \cup DOMAIN book_prev.bids)
                        \ ListedPrices(book_msg.b) :
                SizeAt(bids, p) = SizeAt(book_prev.bids, p)
        /\ \A p \in (DOMAIN asks \cup DOMAIN book_prev.asks)
                        \ ListedPrices(book_msg.a) :
                SizeAt(asks, p) = SizeAt(book_prev.asks, p)
        /\ book_msg.a = << >> => asks = book_prev.asks
        /\ book_msg.b = << >> => bids = book_prev.bids

\* a delta that lists asks only and changes the size of an ask level, on a
\* book with bids and with an ask level the delta does not list
C17_Witness ==
    /\ book_msg.type = "delta"
    /\ book_msg.b = << >>
    /\ book_prev.bids # EmptyDict
    /\ \E l \in Listed(book_msg.a) :
          l[2] > 0 /\ SizeAt(book_prev.asks, l[1]) # l[2]
    /\ DOMAIN book_prev.asks \ ListedPrices(book_msg.a) # {}

---------------------------------------------------------------------------
(* The queries of OrderBookL2: best_bid, best_ask, mid, liquidity_within.  *)
(* A result that may be None is a sequence: << >> for None, <<x>> for the  *)
(* value x.  mid = 0.5 * (bid + ask) is the pair Frac(bid + ask, 2).  A    *)
(* band pct is a whole number of thousandths (0.001 is 1), so that         *)
(* px >= mid * (1 - pct) reads                                             *)
(*     px * mid.den * 1000 >= mid.num * (1000 - pct)                       *)
(* and px <= mid * (1 + pct) likewise.                                     *)

\* The books the queries are applied to: the book after one snapshot, with
\* bids at and below 10000 and asks at and above 10000.  Around a mid of
\* 10000 the prices 9990 and 10010 are exactly on the 0.1% band, 9975 and
\* 10025 inside the 0.3% band, 9940 and 10060 outside the 0.5% band.
DepthBidPrices == <<9940, 9975, 9990, 10000>>
DepthAskPrices == <<10000, 10010, 10025, 10060>>
DepthSizes == {2, 5}
\* maybe_emit's bands 0.001, 0.003, 0.005, and the band of width 0
Bands == {0, 1, 3, 5}

\* the lists that name some of the prices ps, in their order, with sizes
\* from S
RECURSIVE ListsOver(_, _)
ListsOver(ps, S) ==
    IF ps = << >> THEN {<< >>}
    ELSE LET rest == ListsOver(Tail(ps), S)
         IN  rest \cup {<<<<Head(ps), sz>>>> \o r : sz \in S, r \in rest}

DepthSnapshots ==
    [type : {"snapshot"}, b : ListsOver(DepthBidPrices, DepthSizes),
     a : ListsOver(DepthAskPrices, DepthSizes)]

\* a plausible slip: the lowest bid
best_bid_min(d) ==
    IF DOMAIN d # {}
    THEN <<CHOOSE p \in DOMAIN d : \A q \in DOMAIN d : p <= q>>
    ELSE << >>

\* max(self.bids) if self.bids else None
best_bid(d) ==
    IF DOMAIN d # {}
    THEN <<CHOOSE p \in DOMAIN d : \A q \in DOMAIN d : q <= p>>
    ELSE << >>

\* min(self.asks) if self.asks else None
best_ask(d) ==
    IF DOMAIN d # {}
    THEN <<CHOOSE p \in DOMAIN d : \A q \in DOMAIN d : p <= q>>
    ELSE << >>

mid(bk) ==
    LET bid == best_bid(bk.bids)
        ask == best_ask(bk.asks)
    IN  IF bid = << >> \/ ask = << >> THEN << >>
        ELSE <<Frac(bid[1] + ask[1], 2)>>

\* sum(sz for px, sz in d.items() if px in ps)
RECURSIVE SumSizes(_, _)
SumSizes(d, ps) ==
    IF ps = {} THEN 0
    ELSE LET p == CHOOSE x \in ps : TRUE
         IN  d[p] + SumSizes(d, ps \ {p})

\* a plausible slip: a level exactly on the band's edge is left out
liquidity_within_strict(bk, pct) ==
    LET m == mid(bk)
    IN  IF m = << >> THEN <<0, 0>>
        ELSE <<SumSizes(bk.bids,
                   {px \in DOMAIN bk.bids :
                       px * m[1].den * 1000 > m[1].num * (1000 - pct)}),
               SumSizes(bk.asks,
                   {px \in DOMAIN bk.asks :
                       px * m[1].den * 1000 < m[1].num * (1000 + pct)})>>

liquidity_within(bk, pct) ==
    LET m == mid(bk)
    IN  IF m = << >> THEN <<0, 0>>
        ELSE <<SumSizes(bk.bids,
                   {px \in DOMAIN bk.bids :
                       px * m[1].den * 1000 >= m[1].num * (1000 - pct)}),
               SumSizes(bk.asks,
                   {px \in DOMAIN bk.asks :
                       px * m[1].den * 1000 <= m[1].num * (1000 + pct)})>>

\* the book after construction and one snapshot
InitDepth ==
    /\ pc = "probe"
    /\ mode = "paper"
    /\ PipelineInit
    /\ DriverInit
    /\ ConsumerInit
    /\ FlowInit
    /\ RunInit
    /\ \E data \in DepthSnapshots :
          /\ bids = apply_snapshot([bids |-> EmptyDict, asks |-> EmptyDict],
                                   data).bids
          /\ asks = apply_snapshot([bids |-> EmptyDict, asks |-> EmptyDict],
                                   data).asks
          /\ book_msg = data
    /\ last_ts \in BookNow
    /\ book_prev = [bids |-> EmptyDict, asks |-> EmptyDict]
    /\ book_ret = [op |-> "none"]

\* mid(), with the best_bid() and best_ask() it calls
Mid ==
    /\ book_ret' = [op |-> "mid", best_bid |-> best_bid(bids),
                    best_ask |-> best_ask(asks), mid |-> mid(Book)]
    /\ UNCHANGED <<pc, bids, asks, last_ts, book_msg, book_prev,
                   pipelineVars, consumerVars, flowVars, runVars>>
    /\ UNCHANGED driverVars

\* liquidity_within(pct)
LiquidityWithin ==
    /\ \E pct \in Bands :
          book_ret' = [op |-> "liquidity_within", pct |-> pct,
                       depth |-> liquidity_within(Book, pct)]
    /\ UNCHANGED <<pc, bids, asks, last_ts, book_msg, book_prev,
                   pipelineVars, consumerVars, flowVars, runVars>>
    /\ UNCHANGED driverVars

NextDepth == Mid \/ LiquidityWithin

SpecDepth == InitDepth /\ [][NextDepth]_vars

---------------------------------------------------------------------------
(* Properties of the book's queries, checked under SpecDepth.              *)

\* C18: best_bid is the highest bid price, or None when there is no bid;
\* best_ask is the lowest ask price, or None when there is no ask; mid is
\* defined exactly when both sides have a level and is then
\* (best_bid + best_ask) / 2.
C18_BestAndMid ==
    book_ret.op = "mid" =>
        /\ DOMAIN bids = {} => book_ret.best_bid = << >>
        /\ DOMAIN bids # {} =>
              /\ book_ret.best_bid # << >>
              /\ book_ret.best_bid[1] = MaxOf(DOMAIN bids)
        /\ DOMAIN asks = {} => book_ret.best_ask = << >>
        /\ DOMAIN asks # {} =>
              /\ book_ret.best_ask # << >>
              /\ book_ret.best_ask[1] = MinOf(DOMAIN asks)
        /\ book_ret.mid # << >> <=> (DOMAIN bids # {} /\ DOMAIN asks # {})
        /\ book_ret.mid # << >> =>
              FracIs(book_ret.mid[1],
                     MaxOf(DOMAIN bids) + MinOf(DOMAIN asks), 2)

\* mid() on a book with several bids and several asks
C18_Witness ==
    /\ book_ret.op = "mid"
    /\ book_ret.mid # << >>
    /\ Cardinality(DOMAIN bids) >= 2
    /\ Cardinality(DOMAIN asks) >= 2

\* the bid prices at or above mid * (1 - pct) and the ask prices at or
\* below mid * (1 + pct), for mid = (bb + ba) / 2
BidsInBand(bb, ba, pct) ==
    {px \in DOMAIN bids : 2000 * px >= (bb + ba) * (1000 - pct)}
AsksInBand(bb, ba, pct) ==
    {px \in DOMAIN asks : 2000 * px <= (bb + ba) * (1000 + pct)}

\* C19: with a defined mid, liquidity_within(pct) returns the sum of the
\* bid sizes at prices >= mid * (1 - pct) and the sum of the ask sizes at
\* prices <= mid * (1 + pct); with an undefined mid it returns (0, 0); for
\* pct1 <= pct2 both depths at pct1 are at most those at pct2.
C19_DepthWithinBand ==
    book_ret.op = "liquidity_within" =>
        /\ (DOMAIN bids = {} \/ DOMAIN asks = {}) => book_ret.depth = <<0, 0>>
        /\ (DOMAIN bids # {} /\ DOMAIN asks # {}) =>
              LET bb == MaxOf(DOMAIN bids)
                  ba == MinOf(DOMAIN asks)
              IN  /\ book_ret.depth[1] =
                        SumSizes(bids, BidsInBand(bb, ba, book_ret.pct))
                  /\ book_ret.depth[2] =
                        SumSizes(asks, AsksInBand(bb, ba, book_ret.pct))
        /\ \A pct2 \in Bands :
              book_ret.pct <= pct2 =>
                  /\ book_ret.depth[1] <= liquidity_within(Book, pct2)[1]
                  /\ book_ret.depth[2] <= liquidity_within(Book, pct2)[2]

\* liquidity_within(0.001) on a book with mid 10000, a bid exactly on the
\* band's lower edge, a bid outside the band, and more depth at 0.5%
C19_Witness ==
    /\ book_ret.op = "liquidity_within"
    /\ book_ret.pct = 1
    /\ DOMAIN bids # {} /\ DOMAIN asks # {}
    /\ MaxOf(DOMAIN bids) + MinOf(DOMAIN asks) = 20000
    /\ 9990 \in DOMAIN bids
    /\ 9975 \in DOMAIN bids
    /\ book_ret.depth[1] = SumSizes(bids, DOMAIN bids \ {9940, 9975})
    /\ book_ret.depth[1] < liquidity_within(Book, 5)[1]

---------------------------------------------------------------------------
(* orderbook_probe.ProbeReporter._detect_run.  agg_stats is a result of    *)
(* AggFlowTracker.summary; None is << >> and a returned dict d is <<d>>.   *)
(* A share s is a pair Frac(buy, total) with total > 0 (or Frac(0, 1)), so *)
(* s >= 0.7 reads 10 * s.num >= 7 * s.den and s <= 0.3 reads               *)
(* 10 * s.num <= 3 * s.den.  The sample's ts is stored and never read; the *)
(* model has one value for the clock.                                      *)

\* deque(maxlen=5)
BIAS_MAXLEN == 5

\* The buy and sell volume of the 1-second window at a pulse: no volume,
\* volume with zero net, and on either side a share exactly on the
\* threshold (0.7, 0.3) with net 4, a share past it with net 2 (0.75,
\* 0.25) and a share short of it with net 2 (0.6, 0.4).
PulseFlows ==
    {[buy |-> 0, sell |-> 0], [buy |-> 2, sell |-> 2],
     [buy |-> 7, sell |-> 3], [buy |-> 3, sell |-> 1], [buy |-> 6, sell |-> 4],
     [buy |-> 3, sell |-> 7], [buy |-> 1, sell |-> 3], [buy |-> 4, sell |-> 6]}
RunNow == {1}

\* summary's result when the trades of the last second are all the
\* retained trades
PulseStats(p) == [w \in WindowSet |-> WindowStats(p.buy, p.sell)]

Abs(x) == IF x < 0 THEN -x ELSE x

\* self.bias_hist.append(x) on a deque of maxlen 5
AppendBounded(h, x) ==
    IF Len(h) >= BIAS_MAXLEN THEN Append(Tail(h), x) ELSE Append(h, x)

\* a plausible slip: the magnitudes have to grow strictly
StrengtheningStrict(recent) ==
    LET strong_share ==
            IF recent[1].dir > 0
            THEN 10 * recent[3].share.num >= 7 * recent[3].share.den
            ELSE 10 * recent[3].share.num <= 3 * recent[3].share.den
    IN  /\ Abs(recent[1].net) < Abs(recent[2].net)
        /\ Abs(recent[2].net) < Abs(recent[3].net)
        /\ strong_share

\* mags[0] <= mags[1] <= mags[2] and strong_share
Strengthening(recent) ==
    LET strong_share ==
            IF recent[1].dir > 0
            THEN 10 * recent[3].share.num >= 7 * recent[3].share.den
            ELSE 10 * recent[3].share.num <= 3 * recent[3].share.den
    IN  /\ Abs(recent[1].net) <= Abs(recent[2].net)
        /\ Abs(recent[2].net) <= Abs(recent[3].net)
        /\ strong_share

\* _detect_run(ts_now, agg_stats) on the history hist: the history it
\* leaves and what it returns; one is the key 1.0 (one second) in the time
\* unit of the window lengths
DetectRunAt(hist, ts_now, agg_stats, one) ==
    IF one \notin DOMAIN agg_stats THEN [hist |-> hist, ret |-> << >>]
    ELSE
    LET one_sec == agg_stats[one]
        net == one_sec.net
        total == one_sec.total
        direction == IF net > 0 THEN 1 ELSE IF net < 0 THEN -1 ELSE 0
    IN  IF total <= 0 THEN [hist |-> hist, ret |-> << >>]
        ELSE IF direction = 0 THEN [hist |-> hist, ret |-> << >>]
        ELSE
        LET h == AppendBounded(hist, [ts |-> ts_now, dir |-> direction,
                                      net |-> net,
                                      share |-> one_sec.buy_share])
        IN  IF Len(h) < 3 THEN [hist |-> h, ret |-> << >>]
            ELSE
            LET recent == SubSeq(h, Len(h) - 2, Len(h))
            IN  IF ~ \A k \in 1 .. 3 :
                       recent[k].dir = recent[1].dir /\ recent[k].dir # 0
                THEN [hist |-> h, ret |-> << >>]
                ELSE IF Strengthening(recent)
                THEN [hist |-> h,
                      ret |-> <<[dir |-> IF recent[1].dir > 0
                                         THEN "BUY" ELSE "SELL",
                                 net |-> recent[3].net,
                                 share |-> recent[3].share]>>]
                ELSE [hist |-> h, ret |-> << >>]

\* _detect_run without the return at direction 0: a pulse with volume and
\* zero net is appended to the history as a sample of direction 0.
DetectRunKeepsNeutral(hist, ts_now, agg_stats) ==
    IF 1 \in DOMAIN agg_stats /\ agg_stats[1].total > 0
       /\ agg_stats[1].net = 0
    THEN [hist |-> AppendBounded(hist, [ts |-> ts_now, dir |-> 0, net |-> 0,
                                        share |-> agg_stats[1].buy_share]),
          ret |-> << >>]
    ELSE DetectRunAt(hist, ts_now, agg_stats, 1)

\* _detect_run with the window lengths in seconds
_detect_run(hist, ts_now, agg_stats) == DetectRunAt(hist, ts_now, agg_stats, 1)

InitRun ==
    /\ pc = "probe"
    /\ mode = "paper"
    /\ PipelineInit
    /\ DriverInit
    /\ ConsumerInit
    /\ ProbeInit

\* one call of _detect_run by maybe_emit
DetectRun ==
    /\ \E p \in PulseFlows, ts_now \in RunNow :
          LET r == _detect_run(bias_hist, ts_now, PulseStats(p))
          IN  /\ bias_hist' = r.hist
              /\ run_ret' = r.ret
              /\ run_call' = [op |-> "_detect_run",
                              net |-> PulseStats(p)[1].net,
                              total |-> PulseStats(p)[1].total]
    /\ UNCHANGED <<pc, pipelineVars, consumerVars, flowVars, bookVars>>
    /\ UNCHANGED driverVars

NextRun == DetectRun

SpecRun == InitRun /\ [][NextRun]_vars

---------------------------------------------------------------------------
(* Properties of run detection, checked under SpecRun.                     *)

\* the last three samples of the history h
Last3(h) == SubSeq(h, Len(h) - 2, Len(h))

SameNonZeroDirection(r) ==
    /\ r[1].dir # 0
    /\ r[2].dir = r[1].dir
    /\ r[3].dir = r[1].dir

\* the run rule: persistence, escalation, decisiveness
RunRule(h) ==
    /\ Len(h) >= 3
    /\ SameNonZeroDirection(Last3(h))
    /\ Abs(Last3(h)[1].net) <= Abs(Last3(h)[2].net)
    /\ Abs(Last3(h)[2].net) <= Abs(Last3(h)[3].net)
    /\ Last3(h)[3].dir > 0 =>
          10 * Last3(h)[3].share.num >= 7 * Last3(h)[3].share.den
    /\ Last3(h)[3].dir < 0 =>
          10 * Last3(h)[3].share.num <= 3 * Last3(h)[3].share.den

\* what the claim says of the call that has just returned
RunReportedByRule ==
    /\ run_ret # << >> <=> RunRule(bias_hist)
    /\ run_ret # << >> =>
          run_ret[1].dir = IF Last3(bias_hist)[1].dir > 0
                           THEN "BUY" ELSE "SELL"
    /\ (Len(bias_hist) < 3 \/ ~ SameNonZeroDirection(Last3(bias_hist))) =>
          run_ret = << >>

\* C20 as stated: after any sequence of pulses _detect_run reports a run
\* exactly when the last 3 bias samples share the same non-zero direction,
\* have non-decreasing absolute net values and the most recent buy_share
\* is >= 0.7 (buy run) or <= 0.3 (sell run), with that direction; with
\* fewer than 3 samples or an opposite direction among the last 3 it
\* reports none.
C20_RunExactlyByRule ==
    run_call.op = "_detect_run" => RunReportedByRule

\* C20 amended: the same for every call whose pulse has total > 0 and a
\* non-zero net; a call whose pulse has no volume or zero net reports none
\* whatever the history holds.
C20_RunByRuleAtBiasedPulse ==
    run_call.op = "_detect_run" =>
        IF run_call.total > 0 /\ run_call.net # 0
        THEN RunReportedByRule
        ELSE run_ret = << >>

\* a buy run reported from a full history whose last three samples have
\* equal magnitudes and a share of exactly 0.7
C20_Witness ==
    /\ run_call.op = "_detect_run"
    /\ run_ret # << >>
    /\ run_ret[1].dir = "BUY"
    /\ Len(bias_hist) = BIAS_MAXLEN
    /\ bias_hist[1].dir < 0
    /\ Last3(bias_hist)[1].net = Last3(bias_hist)[3].net
    /\ 10 * run_ret[1].share.num = 7 * run_ret[1].share.den

---------------------------------------------------------------------------
(* orderbook_probe.ProbeReporter.maybe_emit and run_probe.on_message.      *)
(* The probe's state is taken as one record st with the fields trades,     *)
(* recorded, bids, asks, last_ts, bias_hist, last_emit, last_price.  One   *)
(* handler runs at one instant: every now_ts() it calls returns the same   *)
(* value.  flow_call, flow_ret, book_msg, book_prev, book_ret, run_call    *)
(* and run_ret describe the direct calls of the specifications above and   *)
(* are left alone here; what maybe_emit computed is kept in pulse.         *)

\* self.print_interval, in seconds
PrintInterval == 2
\* most messages handled in one run
MaxMsgs == 3
\* what now_ts() returns when the probe is built, and by how much the
\* clock moves between two messages
StartTimes == {100}
ClockSteps == {0, 1, 2}

\* bands = [0.001, 0.003, 0.005], in thousandths
PulseBands == <<1, 3, 5>>

Probe ==
    [trades |-> trades, recorded |-> recorded, bids |-> bids, asks |-> asks,
     last_ts |-> last_ts, bias_hist |-> bias_hist, last_emit |-> last_emit,
     last_price |-> last_price]

\* a plausible slip: a pulse is let through one second early
ThrottledEarly(ts_now, le) == ts_now - le < PrintInterval - 1

\* maybe_emit's first test: ts_now - self.last_emit < self.print_interval
Throttled(ts_now, le) == ts_now - le < PrintInterval

\* a plausible slip: a side at exactly 0.4 x the other is flagged as well
WeakSideInclusive(bid_depth, ask_depth) ==
    IF bid_depth > 0 /\ ask_depth > 0
    THEN IF 10 * bid_depth <= 4 * ask_depth
         THEN [side |-> "bid", ratio |-> <<Frac(bid_depth, ask_depth)>>]
         ELSE IF 10 * ask_depth <= 4 * bid_depth
         THEN [side |-> "ask", ratio |-> <<Frac(ask_depth, bid_depth)>>]
         ELSE [side |-> "none", ratio |-> << >>]
    ELSE [side |-> "none", ratio |-> << >>]

\* maybe_emit, the body of the loop over the bands: weak_side and ratio
\* (x < 0.4 * y reads 10 * x < 4 * y)
WeakSide(bid_depth, ask_depth) ==
    IF bid_depth > 0 /\ ask_depth > 0
    THEN IF 10 * bid_depth < 4 * ask_depth
         THEN [side |-> "bid", ratio |-> <<Frac(bid_depth, ask_depth)>>]
         ELSE IF 10 * ask_depth < 4 * bid_depth
         THEN [side |-> "ask", ratio |-> <<Frac(ask_depth, bid_depth)>>]
         ELSE [side |-> "none", ratio |-> << >>]
    ELSE [side |-> "none", ratio |-> << >>]

\* maybe_emit, the directional hint: one is agg_stats.get(1.0) or
\* agg_stats.get(1), << >> when the tracker has no such window
Hint(one) ==
    LET one_share == IF one # << >> THEN one[1].buy_share ELSE Frac(0, 1)
    IN  IF 2 * one_share.num > one_share.den THEN "LONG"
        ELSE IF 2 * one_share.num < one_share.den THEN "SHORT"
        ELSE "none"

\* agg_stats.get(1.0) or agg_stats.get(1)
GetOne(agg_stats) == IF 1 \in DOMAIN agg_stats THEN <<agg_stats[1]>> ELSE << >>

\* maybe_emit past the throttle test (lines 203-293): the state it leaves
\* and what it prints
EmitPulse(st, ts_now) ==
    LET bk == [bids |-> st.bids, asks |-> st.asks]
    IN  IF mid(bk) = << >> /\ st.last_price = << >>
        THEN [st |-> st, out |-> NoPulse]
        ELSE
        LET agg_stats == summary(st.trades, ts_now)
            run == _detect_run(st.bias_hist, ts_now, agg_stats)
            liq == [n \in DOMAIN PulseBands |->
                       liquidity_within(bk, PulseBands[n])]
        IN  [st |-> [st EXCEPT !.trades = _prune(st.trades, ts_now),
                               !.bias_hist = run.hist,
                               !.last_emit = ts_now],
             out |-> [emitted |-> TRUE,
                      ts |-> ts_now,
                      prev_emit |-> st.last_emit,
                      mid |-> IF mid(bk) # << >> THEN mid(bk)[1]
                              ELSE Frac(st.last_price[1], 1),
                      liq |-> liq,
                      weak |-> [n \in DOMAIN PulseBands |->
                                   WeakSide(liq[n][1], liq[n][2])],
                      one |-> GetOne(agg_stats),
                      run |-> run.ret,
                      hint |-> Hint(GetOne(agg_stats))]]

\* a plausible slip: run detection is called before the throttle test
maybe_emit_detects_first(st, ts_now) ==
    IF Throttled(ts_now, st.last_emit)
    THEN [st |-> [st EXCEPT !.bias_hist =
                     _detect_run(st.bias_hist, ts_now,
                                 summary(st.trades, ts_now)).hist],
          out |-> NoPulse]
    ELSE EmitPulse(st, ts_now)

\* maybe_emit() at the instant ts_now
maybe_emit(st, ts_now) ==
    IF Throttled(ts_now, st.last_emit) THEN [st |-> st, out |-> NoPulse]
    ELSE EmitPulse(st, ts_now)

\* The messages of the feed at the instant t.  A trade record carries the
\* exchange's time T, the side S, the volume v and the price p; a field the
\* record lacks is << >>.
TradeMsg(recs) == [topic |-> "publicTrade", data |-> recs]
BuyRec(t) == [T |-> t, S |-> <<"Buy">>, v |-> <<2>>, p |-> <<10000>>]
SellRec(t) == [T |-> t, S |-> <<"Sell">>, v |-> <<2>>, p |-> <<10010>>]

\* three books: a thin bid (2 against 10 in every band); a thin ask in the
\* 0.1% band (2 against 10) that is exactly 0.4 x the bid from the 0.3%
\* band on (4 against 10); the best bid removed, which leaves no mid
PulseBookMsgs ==
    {[topic |-> "orderbook", type |-> "snapshot",
      b |-> <<<<10000, 2>>>>, a |-> <<<<10000, 5>>, <<10010, 5>>>>],
     [topic |-> "orderbook", type |-> "snapshot",
      b |-> <<<<9990, 5>>, <<10000, 5>>>>,
      a |-> <<<<10000, 2>>, <<10025, 2>>>>],
     [topic |-> "orderbook", type |-> "delta",
      b |-> <<<<10000, 0>>, <<9990, 0>>>>, a |-> << >>]}

PulseMsgs(t) ==
    {TradeMsg(<<BuyRec(t)>>), TradeMsg(<<SellRec(t)>>),
     TradeMsg(<<BuyRec(t), SellRec(t)>>)}
    \cup PulseBookMsgs
    \cup {[topic |-> "tickers", lastPrice |-> 10005]}

\* a trade record float(t["p"]), float(t["v"]) or t["S"] raises on
Raises(t) == t.p = << >> \/ t.v = << >> \/ t.S = << >>

\* on_message, the loop over the trades of a publicTrade message from the
\* k-th on: the state it leaves, and whether a record raised
RECURSIVE HandleTrades(_, _, _)
HandleTrades(st, recs, k) ==
    IF k > Len(recs) THEN [st |-> st, raised |-> FALSE]
    ELSE IF Raises(recs[k]) THEN [st |-> st, raised |-> TRUE]
    ELSE HandleTrades(
             [st EXCEPT
                 !.trades = add_trade(@, recs[k].T, recs[k].S[1],
                                      recs[k].v[1]),
                 !.recorded = Append(@, [ts |-> recs[k].T,
                                         dir |-> SideDirection(recs[k].S[1]),
                                         vol |-> recs[k].v[1]]),
                 !.last_price = recs[k].p],
             recs, k + 1)

\* on_message(ws, message) at the instant ts_now: the state it leaves and
\* what its maybe_emit call prints.  An exception is caught by the handler
\* itself, which prints it and returns: maybe_emit is not called then.
on_message(st, m, ts_now) ==
    IF m.topic = "publicTrade"
    THEN LET h == HandleTrades(st, m.data, 1)
         IN  IF h.raised THEN [st |-> h.st, out |-> NoPulse]
             ELSE maybe_emit(h.st, ts_now)
    ELSE IF m.topic = "orderbook"
    THEN LET bk == [bids |-> st.bids, asks |-> st.asks]
             nb == IF m.type = "snapshot" THEN apply_snapshot(bk, m)
                   ELSE apply_delta(bk, m)
         IN  maybe_emit([st EXCEPT !.bids = nb.bids, !.asks = nb.asks,
                                   !.last_ts = ts_now], ts_now)
    ELSE maybe_emit([st EXCEPT !.last_price = <<m.lastPrice>>], ts_now)

\* the probe after run_probe has built it
InitPulse ==
    /\ pc = "probe"
    /\ mode = "paper"
    /\ PipelineInit
    /\ ConsumerInit
    /\ ProbeInit
    /\ now \in StartTimes
    /\ last_emit = 0
    /\ last_price = << >>
    /\ pulse = NoPulse
    /\ msg = [topic |-> "none"]
    /\ n_msgs = 0
    /\ BatchInit
    /\ SmokeInit
    /\ WindowsInit

\* the state st taken on
Becomes(st) ==
    /\ trades' = st.trades
    /\ recorded' = st.recorded
    /\ bids' = st.bids
    /\ asks' = st.asks
    /\ last_ts' = st.last_ts
    /\ bias_hist' = st.bias_hist
    /\ last_emit' = st.last_emit
    /\ last_price' = st.last_price

\* on_message handles the message m at the instant ts_now
Handled(m, ts_now) ==
    LET r == on_message(Probe, m, ts_now)
    IN  /\ Becomes(r.st)
        /\ pulse' = r.out
        /\ msg' = m
        /\ now' = ts_now

\* one message arrives, trade, order-book or ticker
OnMessage ==
    /\ n_msgs < MaxMsgs
    /\ \E step \in ClockSteps :
          \E m \in PulseMsgs(now + step) : Handled(m, now + step)
    /\ n_msgs' = n_msgs + 1
    /\ UNCHANGED <<pc, pipelineVars, consumerVars, flow_call, flow_ret,
                   book_msg, book_prev, book_ret, run_call, run_ret,
                   batchVars, windows, smokeVars>>

NextPulse == OnMessage

SpecPulse == InitPulse /\ [][NextPulse]_vars

---------------------------------------------------------------------------
(* maybe_emit called on a book of any depth: the weak-side flags.          *)

\* the probe with the book after one snapshot, no trade recorded, and the
\* last price of a ticker message or none
InitBands ==
    /\ pc = "probe"
    /\ mode = "paper"
    /\ PipelineInit
    /\ ConsumerInit
    /\ FlowInit
    /\ RunInit
    /\ \E data \in DepthSnapshots :
          /\ bids = apply_snapshot([bids |-> EmptyDict, asks |-> EmptyDict],
                                   data).bids
          /\ asks = apply_snapshot([bids |-> EmptyDict, asks |-> EmptyDict],
                                   data).asks
          /\ book_msg = data
    /\ last_ts \in StartTimes
    /\ book_prev = [bids |-> EmptyDict, asks |-> EmptyDict]
    /\ book_ret = [op |-> "none"]
    /\ now \in StartTimes
    /\ last_emit = 0
    /\ last_price \in {<< >>, <<10005>>}
    /\ pulse = NoPulse
    /\ msg = [topic |-> "none"]
    /\ n_msgs = 0
    /\ BatchInit
    /\ SmokeInit
    /\ WindowsInit

\* reporter.maybe_emit() at the present instant
MaybeEmit ==
    /\ LET r == maybe_emit(Probe, now)
       IN  /\ Becomes(r.st)
           /\ pulse' = r.out
    /\ UNCHANGED <<pc, now, msg, n_msgs, pipelineVars, consumerVars,
                   flow_call, flow_ret, book_msg, book_prev, book_ret,
                   run_call, run_ret, batchVars,
                   windows, smokeVars>>

NextBands == MaybeEmit

SpecBands == InitBands /\ [][NextBands]_vars

\* C21: for each of the bands of a pulse the probe flags "weak bid"
\* whenever bid depth < 0.4 x ask depth and "weak ask" whenever ask depth
\* < 0.4 x bid depth, the depths being those liquidity_within gives for the
\* band; the ratio reported is the weak side's depth over the other
\* side's; the two flags are never raised for the same band.
C21_WeakSideFlags ==
    pulse.emitted =>
        \A n \in DOMAIN PulseBands :
            LET d == liquidity_within(Book, PulseBands[n])
                bid_depth == d[1]
                ask_depth == d[2]
                weak_bid == pulse.weak[n].side = "bid"
                weak_ask == pulse.weak[n].side = "ask"
            IN  /\ weak_bid <=> 10 * bid_depth < 4 * ask_depth
                /\ weak_ask <=> 10 * ask_depth < 4 * bid_depth
                /\ weak_bid =>
                      FracIs(pulse.weak[n].ratio[1], bid_depth, ask_depth)
                /\ weak_ask =>
                      FracIs(pulse.weak[n].ratio[1], ask_depth, bid_depth)
                /\ ~ (weak_bid /\ weak_ask)

\* a pulse with a weak bid in the 0.1% band (2 against 10) and, in the 0.3%
\* band, a bid of exactly 0.4 x the ask (4 against 10) that is not flagged
C21_Witness ==
    /\ pulse.emitted
    /\ pulse.weak[1].side = "bid"
    /\ FracIs(pulse.weak[1].ratio[1], 1, 5)
    /\ pulse.weak[2].side = "none"
    /\ 10 * pulse.liq[2][1] = 4 * pulse.liq[2][2]
    /\ pulse.liq[2][1] > 0

---------------------------------------------------------------------------
(* Properties of the pulses of run_probe, checked under SpecPulse.         *)

\* C22: a pulse computed from a 1-second window with zero total volume is
\* neutral: its buy_share is 0, no run is reported, and neither the LONG
\* nor the SHORT hint is emitted.
C22_ZeroVolumePulseNeutral ==
    (pulse.emitted /\ pulse.one # << >> /\ pulse.one[1].total = 0) =>
        /\ FracIs(pulse.one[1].buy_share, 0, 1)
        /\ pulse.run = << >>
        /\ pulse.hint = "none"

\* C23: under any interleaving of trade, order-book and ticker messages
\* with a non-decreasing clock, a pulse is emitted only when the clock is at
\* least print_interval past last_emit, last_emit is set to the emission
\* time of each pulse, and nothing else moves last_emit: two consecutive
\* pulses are at least print_interval apart.
C23_PulsesSpaced ==
    [][IF pulse'.emitted
       THEN /\ now' - last_emit >= PrintInterval
            /\ pulse'.ts = now'
            /\ last_emit' = now'
       ELSE last_emit' = last_emit]_vars

\* the third message is the second pulse, exactly print_interval after the
\* first; the message between the two was throttled
C23_Witness ==
    /\ n_msgs = 3
    /\ pulse.emitted
    /\ pulse.prev_emit \in StartTimes
    /\ pulse.ts = pulse.prev_emit + PrintInterval
    /\ last_emit = pulse.ts

\* the observations add_trade is handed for the trade records recs
Observations(recs) ==
    [k \in DOMAIN recs |-> [ts |-> recs[k].T,
                            dir |-> SideDirection(recs[k].S[1]),
                            vol |-> recs[k].v[1]]]

\* C24: a message that arrives between pulses (less than print_interval
\* after last_emit) only updates internal state: its trades are recorded
\* in the tracker after the ones already held, none of which is lost, its
\* book update is applied, last_price is updated, and the throttled
\* maybe_emit call prints nothing and leaves last_emit and the bias history
\* unchanged.
C24_BetweenPulsesFrame ==
    [][(n_msgs' # n_msgs /\ now' - last_emit < PrintInterval) =>
          /\ ~ pulse'.emitted
          /\ last_emit' = last_emit
          /\ bias_hist' = bias_hist
          /\ msg'.topic = "publicTrade" =>
                /\ trades' = trades \o Observations(msg'.data)
                /\ recorded' = recorded \o Observations(msg'.data)
                /\ last_price' = msg'.data[Len(msg'.data)].p
                /\ Book' = Book
          /\ msg'.topic = "orderbook" =>
                /\ Book' = IF msg'.type = "snapshot"
                           THEN apply_snapshot(Book, msg')
                           ELSE apply_delta(Book, msg')
                /\ trades' = trades
                /\ last_price' = last_price
          /\ msg'.topic = "tickers" =>
                /\ last_price' = <<msg'.lastPrice>>
                /\ trades' = trades
                /\ Book' = Book]_vars

\* a message of two trades handled one second after a pulse that appended
\* a bias sample: both trades are held, nothing is printed
C24_Witness ==
    /\ msg.topic = "publicTrade"
    /\ Len(msg.data) = 2
    /\ ~ pulse.emitted
    /\ last_emit \in StartTimes
    /\ now = last_emit + 1
    /\ bias_hist # << >>
    /\ Len(trades) >= 3
    /\ last_price = <<10010>>

---------------------------------------------------------------------------
(* sweep_param_scan.main: the grid search.  Time unit 0.1 s, so that the   *)
(* windows 0.3, 0.6 and 1.0 s are 3, 6 and 10 units and the horizon of     *)
(* 30 s is 300 units.                                                      *)

\* WINDOW_LIST, PRICE_BP_LIST and VOL_MIN_LIST as the lists main walks
WINDOW_LIST == <<3, 6, 10>>
PriceBpSeq == <<3, 5, 8>>
VolMinSeq == <<2, 5, 10>>
GridHorizon == 10 * T_HORIZON

\* The tick histories of the grid, as load_ticks returns them (sorted by
\* ts): none; rising by 5 bp within 0.3 s and by 8 bp within 1 s; falling
\* likewise; flat; rising by 3 bp on little volume.
GridTickLists ==
    {<< >>,
     <<[ts |-> 0, price |-> 10000, vol |-> 2],
       [ts |-> 3, price |-> 10005, vol |-> 3],
       [ts |-> 10, price |-> 10008, vol |-> 5]>>,
     <<[ts |-> 0, price |-> 10000, vol |-> 2],
       [ts |-> 3, price |-> 9995, vol |-> 3],
       [ts |-> 10, price |-> 9992, vol |-> 5]>>,
     <<[ts |-> 0, price |-> 10000, vol |-> 4],
       [ts |-> 6, price |-> 10000, vol |-> 4]>>,
     <<[ts |-> 0, price |-> 10000, vol |-> 1],
       [ts |-> 6, price |-> 10003, vol |-> 1]>>}

\* a plausible slip: the events are appended to the list of the previous
\* configuration
GridRunSharedList(tk, prev, w, bp, vm) ==
    LET found == prev \o detect_sweeps_py(tk, w, bp, vm)
    IN  [ticks |-> tk, sweeps |-> found,
         stats |-> compute_ret_stats(tk, found, GridHorizon)]

\* the body of the loops for one configuration (lines 180-181): the tick
\* list and the event list it leaves and the returns it computes; prev is
\* the event list of the configuration before
GridRun(tk, prev, w, bp, vm) ==
    LET found == detect_sweeps_py(tk, w, bp, vm)
    IN  [ticks |-> tk, sweeps |-> found,
         stats |-> compute_ret_stats(tk, found, GridHorizon)]

\* a plausible slip: the price threshold is the innermost loop
GridAdvanceBpInner(idx) ==
    IF idx[2] < Len(PriceBpSeq) THEN <<idx[1], idx[2] + 1, idx[3]>>
    ELSE IF idx[3] < Len(VolMinSeq) THEN <<idx[1], 1, idx[3] + 1>>
    ELSE <<idx[1] + 1, 1, 1>>

\* the three nested for loops: the indices of the configuration after idx
GridAdvance(idx) ==
    IF idx[3] < Len(VolMinSeq) THEN <<idx[1], idx[2], idx[3] + 1>>
    ELSE IF idx[2] < Len(PriceBpSeq) THEN <<idx[1], idx[2] + 1, 1>>
    ELSE <<idx[1] + 1, 1, 1>>

GridConfig(idx) ==
    [window |-> WINDOW_LIST[idx[1]], bp |-> PriceBpSeq[idx[2]],
     vol_min |-> VolMinSeq[idx[3]]]

\* main after load_ticks
InitGrid ==
    /\ pc = "grid"
    /\ ticks \in GridTickLists
    /\ window_sec = 0
    /\ price_bp_thresh = 0
    /\ vol_min = 0
    /\ sweeps = << >>
    /\ res_analyze = << >>
    /\ res_offline = << >>
    /\ res_stats = [down_rets |-> << >>, up_rets |-> << >>]
    /\ RestInit

\* one pass of the innermost loop body: detect, evaluate, print
GridStep ==
    /\ pc = "grid"
    /\ grid_idx[1] <= Len(WINDOW_LIST)
    /\ LET c == GridConfig(grid_idx)
           r == GridRun(ticks, sweeps, c.window, c.bp, c.vol_min)
       IN  /\ ticks' = r.ticks
           /\ sweeps' = r.sweeps
           /\ res_stats' = r.stats
           /\ window_sec' = c.window
           /\ price_bp_thresh' = c.bp
           /\ vol_min' = c.vol_min
           /\ grid_calls' = grid_calls \o
                 <<[fn |-> "detect_sweeps_py", cfg |-> c],
                   [fn |-> "compute_ret_stats", cfg |-> c]>>
           /\ grid_report' = Append(grid_report,
                 [cfg |-> c, sweeps |-> Len(r.sweeps),
                  down |-> r.stats.down_rets, up |-> r.stats.up_rets])
    /\ grid_idx' = GridAdvance(grid_idx)
    /\ UNCHANGED <<pc, res_analyze, res_offline, consumerVars, probeVars,
                   reporterVars, windows, smokeVars, scan_log, emit_log>>

NextGrid == GridStep

SpecGrid == InitGrid /\ [][NextGrid]_vars

\* number of tuples of the Cartesian product
GridSize == Len(WINDOW_LIST) * Len(PriceBpSeq) * Len(VolMinSeq)

\* the m-th tuple of WINDOW_LIST x PRICE_BP_LIST x VOL_MIN_LIST in the
\* order of the lists, window outermost, volume minimum innermost
NthConfig(m) ==
    [window |-> WINDOW_LIST[((m - 1) \div (Len(PriceBpSeq) * Len(VolMinSeq)))
                            + 1],
     bp |-> PriceBpSeq[(((m - 1) \div Len(VolMinSeq)) % Len(PriceBpSeq)) + 1],
     vol_min |-> VolMinSeq[((m - 1) % Len(VolMinSeq)) + 1]]

GridDone == grid_idx[1] > Len(WINDOW_LIST)

\* C25: the harness runs the detector and then the evaluator exactly once
\* for every tuple of WINDOW_LIST x PRICE_BP_LIST x VOL_MIN_LIST, skipping
\* none and repeating none, also when a configuration yields no event, and
\* reports the results in the order of the lists: window outermost, then
\* price threshold, then volume minimum.
C25_GridCoversProductInOrder ==
    /\ Len(grid_report) <= GridSize
    /\ Len(grid_calls) = 2 * Len(grid_report)
    /\ \A m \in 1 .. Len(grid_report) :
          /\ grid_report[m].cfg = NthConfig(m)
          /\ grid_calls[2 * m - 1] =
                [fn |-> "detect_sweeps_py", cfg |-> NthConfig(m)]
          /\ grid_calls[2 * m] =
                [fn |-> "compute_ret_stats", cfg |-> NthConfig(m)]
    /\ GridDone =>
          /\ Len(grid_report) = GridSize
          /\ \A w \in 1 .. Len(WINDOW_LIST), b \in 1 .. Len(PriceBpSeq),
                v \in 1 .. Len(VolMinSeq) :
                Cardinality({m \in 1 .. Len(grid_report) :
                                grid_report[m].cfg = GridConfig(<<w, b, v>>)})
                   = 1

\* a finished grid some of whose configurations found no event and some
\* of whose found one
C25_Witness ==
    /\ GridDone
    /\ \E m \in 1 .. Len(grid_report) : grid_report[m].sweeps = 0
    /\ \E m \in 1 .. Len(grid_report) :
          grid_report[m].sweeps > 0 /\ grid_report[m].up # << >>

---------------------------------------------------------------------------
(* Out-of-order input of AggFlowTracker, checked under SpecFlow.  Neither  *)
(* add_trade nor summary has a path that rejects a call.                   *)

\* the volume of the observations of obs, from index k on, that have
\* direction d and an age between 0 and w at ts_now
RECURSIVE VolumeAged(_, _, _, _, _)
VolumeAged(obs, k, d, ts_now, w) ==
    IF k > Len(obs) THEN 0
    ELSE (IF /\ obs[k].dir = d
             /\ 0 <= ts_now - obs[k].ts
             /\ ts_now - obs[k].ts <= w
          THEN obs[k].vol ELSE 0)
         + VolumeAged(obs, k + 1, d, ts_now, w)

\* C27: out-of-order input never silently produces incorrect window
\* contents: once add_trade has been called with a timestamp lower than an
\* earlier recorded one (a call the tracker does not reject), every later
\* summary(now) still sums, for every window, exactly the recorded trades
\* with 0 <= now - ts <= window, and the tracker retains no observation
\* older than the largest window.
C27_OutOfOrderWindowsExact ==
    (flow_call.op = "summary" /\ ~ InOrder(recorded)) =>
        /\ \A w \in DOMAIN flow_ret :
              /\ flow_ret[w].buy =
                    VolumeAged(recorded, 1, 1, flow_call.ts, w)
              /\ flow_ret[w].sell =
                    VolumeAged(recorded, 1, -1, flow_call.ts, w)
        /\ \A k \in 1 .. Len(trades) :
              flow_call.ts - trades[k].ts <= MaxWindow

---------------------------------------------------------------------------
(* Malformed trade records in run_probe.on_message.                        *)

\* the records of the feed at the instant t: a well-formed one, one without
\* a price, one with a negative volume, one with the price 0
StreamRecs(t) ==
    {BuyRec(t),
     [T |-> t, S |-> <<"Sell">>, v |-> <<2>>, p |-> << >>],
     [T |-> t, S |-> <<"Sell">>, v |-> <<-2>>, p |-> <<10010>>],
     [T |-> t, S |-> <<"Sell">>, v |-> <<2>>, p |-> <<0>>]}

\* the trade messages of one or two such records
StreamMsgs(t) ==
    {TradeMsg(<<r>>) : r \in StreamRecs(t)}
    \cup {TradeMsg(<<r1, r2>>) : r1 \in StreamRecs(t), r2 \in StreamRecs(t)}

InitStream == InitPulse

\* one trade message arrives, a second after the one before
OnRecords ==
    /\ n_msgs < MaxMsgs
    /\ \E m \in StreamMsgs(now + 1) : Handled(m, now + 1)
    /\ n_msgs' = n_msgs + 1
    /\ UNCHANGED <<pc, pipelineVars, consumerVars, flow_call, flow_ret,
                   book_msg, book_prev, book_ret, run_call, run_ret,
                   batchVars, windows, smokeVars>>

NextStream == OnRecords

SpecStream == InitStream /\ [][NextStream]_vars

\* a required field missing, a non-positive price or a negative volume
Malformed(t) ==
    \/ t.p = << >> \/ t.v = << >> \/ t.S = << >>
    \/ t.p[1] <= 0
    \/ t.v[1] < 0

WellFormed(t) == ~ Malformed(t)

\* C28: a malformed trade record is rejected alone: a message adds to the
\* tracker exactly its well-formed records, in their order, those before
\* and those after a malformed one alike, and the messages after it are
\* handled in the same way.
C28_MalformedRejectedAlone ==
    [][n_msgs' # n_msgs =>
          recorded' = recorded \o
              Observations(SelectSeq(msg'.data, WellFormed))]_vars

---------------------------------------------------------------------------
(* A tracker built with other windows than run_probe's, and the run        *)
(* detection of a reporter on it.  Time unit 0.5 s here: one second, the   *)
(* key _detect_run reads, is 2.                                            *)

OneSecond == 2

\* self.windows = sorted(windows): 1, 3, 10 s (run_probe's); 0.5, 1 s;
\* 2, 5 s; 1 s alone
WindowConfigs == {<<2, 6, 20>>, <<1, 2>>, <<4, 10>>, <<2>>}

\* _prune of a tracker with the windows ws
RECURSIVE PruneOver(_, _, _)
PruneOver(ws, tr, ts_now) ==
    LET cutoff == ts_now - ws[Len(ws)]
    IN  IF tr # << >> /\ Head(tr).ts < cutoff
        THEN PruneOver(ws, Tail(tr), ts_now)
        ELSE tr

\* summary(ts_now) of a tracker with the windows ws
SummaryOver(ws, tr, ts_now) ==
    LET kept == PruneOver(ws, tr, ts_now)
        keys == {ws[n] : n \in DOMAIN ws}
        stats == Accumulate([w \in keys |-> [buy |-> 0, sell |-> 0]],
                            kept, 1, ts_now)
    IN  [w \in keys |-> WindowStats(stats[w].buy, stats[w].sell)]

InitWindows ==
    /\ pc = "probe"
    /\ mode = "paper"
    /\ PipelineInit
    /\ ConsumerInit
    /\ ProbeInit
    /\ now \in StartTimes
    /\ last_emit = 0
    /\ last_price = << >>
    /\ pulse = NoPulse
    /\ msg = [topic |-> "none"]
    /\ n_msgs = 0
    /\ BatchInit
    /\ SmokeInit
    /\ windows \in WindowConfigs

\* the clock moves by half a second
Tick ==
    /\ n_msgs < MaxMsgs
    /\ now' = now + 1
    /\ n_msgs' = n_msgs + 1
    /\ UNCHANGED <<pc, pipelineVars, consumerVars, probeVars, last_emit,
                   last_price, pulse, msg, batchVars, windows, smokeVars>>

\* add_trade(now, side, 2)
FeedTrade ==
    /\ Len(recorded) < MaxTrades
    /\ \E side \in Sides :
          LET ob == [ts |-> now, dir |-> SideDirection(side), vol |-> 2]
          IN  /\ trades' = PruneOver(windows, Append(trades, ob), now)
              /\ recorded' = Append(recorded, ob)
    /\ flow_call' = [op |-> "add_trade", ts |-> now]
    /\ UNCHANGED <<pc, pipelineVars, consumerVars, flow_ret, bookVars,
                   runVars, reporterVars, batchVars, windows, smokeVars>>

\* maybe_emit, lines 199-201, 210-211 and 293: past the throttle (no second
\* pulse at the instant of the last one), summary(ts_now), then
\* _detect_run on it
SummaryAndDetect ==
    /\ last_emit < now
    /\ LET agg_stats == SummaryOver(windows, trades, now)
           r == DetectRunAt(bias_hist, now, agg_stats, OneSecond)
       IN  /\ trades' = PruneOver(windows, trades, now)
           /\ flow_ret' = agg_stats
           /\ flow_call' = [op |-> "summary", ts |-> now]
           /\ bias_hist' = r.hist
           /\ run_ret' = r.ret
           /\ run_call' = [op |-> "_detect_run"]
    /\ last_emit' = now
    /\ UNCHANGED <<pc, pipelineVars, consumerVars, recorded, bookVars,
                   now, last_price, pulse, msg, n_msgs, batchVars, windows, smokeVars>>

NextWindows == Tick \/ FeedTrade \/ SummaryAndDetect

SpecWindows == InitWindows /\ [][NextWindows]_vars

\* C29: for any configured set of flow windows, the bias sample that run
\* detection appends at a pulse is derived from the stats of the shortest
\* configured window, and the bias history never holds more than 5
\* samples.
C29_BiasFromShortestWindow ==
    [][bias_hist' # bias_hist =>
          LET sample == bias_hist'[Len(bias_hist')]
              shortest == flow_ret'[windows[1]]
          IN  /\ sample.net = shortest.net
              /\ sample.share = shortest.buy_share
              /\ sample.dir = IF shortest.net > 0 THEN 1 ELSE -1
              /\ Len(bias_hist') <= BIAS_MAXLEN]_vars

---------------------------------------------------------------------------
(* detect_sweeps_py with its locals kept: what the inner loop leaves in    *)
(* up_vol and dn_vol for every start index.                                *)

\* the parameters of these runs: every window length, 5 bp, volume 5
ScanParams ==
    [window_sec : WindowLengths, price_bp_thresh : {5}, vol_min : {5}]

\* lines 57-80 for every start index i of tk: the locals after the inner
\* loop
ScanLog(tk, w) ==
    [i \in 1 .. Len(tk) |->
        ScanWindow(tk, tk[i].price, tk[i].ts, w,
            [j |-> i, up_max |-> tk[i].price, dn_min |-> tk[i].price,
             up_vol |-> 0, dn_vol |-> 0])]

InitScan == InitDetect

\* one call of detect_sweeps_py
RunDetectLogged ==
    /\ pc = "load"
    /\ \E prm \in ScanParams :
          /\ window_sec' = prm.window_sec
          /\ price_bp_thresh' = prm.price_bp_thresh
          /\ vol_min' = prm.vol_min
          /\ sweeps' = detect_sweeps_py(ticks, prm.window_sec,
                                        prm.price_bp_thresh, prm.vol_min)
          /\ scan_log' = ScanLog(ticks, prm.window_sec)
    /\ pc' = "detected"
    /\ UNCHANGED <<ticks, evalVars, consumerVars, probeVars, reporterVars,
                   gridVars, windows, smokeVars, emit_log>>

NextScan == LoadTick \/ RunDetectLogged

SpecScan == InitScan /\ [][NextScan]_vars

\* C30: a window tick priced at the base price adds its volume to both
\* up_vol and dn_vol: for every start index up_vol + dn_vol is the window's
\* total volume plus the volume of the window ticks priced exactly at the
\* base price, and the base tick's own volume is counted on both sides.
C30_BasePriceVolumeOnBothSides ==
    (Detected /\ Len(scan_log) = Len(ticks)) =>
        \A i \in 1 .. Len(ticks) :
            LET win == Window(i)
                at_base == {j \in win : ticks[j].price = ticks[i].price}
                above == {j \in win : ticks[j].price > ticks[i].price}
                below == {j \in win : ticks[j].price < ticks[i].price}
            IN  /\ scan_log[i].up_vol + scan_log[i].dn_vol =
                      VolOf(win) + VolOf(at_base)
                /\ i \in at_base
                /\ scan_log[i].up_vol =
                      ticks[i].vol + VolOf(at_base \ {i}) + VolOf(above)
                /\ scan_log[i].dn_vol =
                      ticks[i].vol + VolOf(at_base \ {i}) + VolOf(below)

\* a run in which the window of the first tick holds a second tick at the
\* base price and a third one above it
C30_Witness ==
    /\ Detected
    /\ Len(scan_log) = 3
    /\ ticks[2].price = ticks[1].price
    /\ ticks[3].price > ticks[1].price
    /\ Window(1) = {1, 2, 3}
    /\ scan_log[1].up_vol > scan_log[1].dn_vol
    /\ scan_log[1].dn_vol > ticks[1].vol

---------------------------------------------------------------------------
(* The three evaluators on the same files: analyze_sweep, offline_analyze  *)
(* and sweep_param_scan each load the ticks sorted by time and are handed  *)
(* the same events, sorted by ts_end, with the horizon T_HORIZON.          *)

\* Event ends for the comparison: at or before the first tick (0, 10),
\* between the ticks (20: its price0 tick is the tick at 40 s) and behind
\* every tick (50).
AgreeEnds == {0, 10, 20, 50}
AgreeSweepRows ==
    [ts_start : {0}, ts_end : AgreeEnds, direction : {-1, 1},
     price_start : {100}, price_end : {100}, volume_total : {7}]

InitAgree == InitEval

\* load_sweeps of offline_analyze: the rows sorted by ts_end.
LoadAgreeSweep ==
    /\ pc = "load"
    /\ Len(sweeps) < MaxSweeps
    /\ \E row \in AgreeSweepRows : sweeps' = InsertByTsEnd(sweeps, row)
    /\ UNCHANGED <<pc, ticks, window_sec, price_bp_thresh, vol_min, evalVars>>
    /\ UNCHANGED restVars

\* The three evaluators, each called with the ticks and the events loaded.
RunEvaluators ==
    /\ pc = "load"
    /\ res_analyze' = analyze_compute_ret_mfe_mae(ticks, sweeps, T_HORIZON)
    /\ res_offline' = offline_compute_ret_mfe_mae(ticks, sweeps)
    /\ res_stats' = compute_ret_stats(ticks, sweeps, T_HORIZON)
    /\ pc' = "evaluated"
    /\ UNCHANGED <<ticks, window_sec, price_bp_thresh, vol_min, sweeps>>
    /\ UNCHANGED restVars

NextAgree == LoadEvalTick \/ LoadAgreeSweep \/ RunEvaluators

SpecAgree == InitAgree /\ [][NextAgree]_vars

\* The first k events of the list.
Prefix(evs, k) == SubSeq(evs, 1, k)

\* direction, ret_h, mfe_h, mae_h of a record of either compute_ret_mfe_mae
\* (the fifth field is volume_total in one and price0 in the other).
Scores(r) ==
    [direction |-> r.direction, ret_h |-> r.ret_h, mfe_h |-> r.mfe_h,
     mae_h |-> r.mae_h]

ScoresOf(results) == [n \in 1 .. Len(results) |-> Scores(results[n])]

\* The ret_h of the records of Down events and of the other records, in
\* order: what compute_ret_stats is to put into down_rets and up_rets.
RetsOf(results) ==
    LET down == SelectSeq(results, LAMBDA r : r.direction < 0)
        up   == SelectSeq(results, LAMBDA r : ~(r.direction < 0))
    IN  [down_rets |-> [n \in 1 .. Len(down) |-> down[n].ret_h],
         up_rets   |-> [n \in 1 .. Len(up) |-> up[n].ret_h]]

NStats(rets) == Len(rets.down_rets) + Len(rets.up_rets)

\* C31: on ticks sorted by time and events sorted by ts_end, with the same
\* horizon, the three evaluators score the same events (after every prefix
\* of the event list each has returned the same number of records) and give
\* each the same ret_h, and the two compute_ret_mfe_mae the same mfe_h and
\* mae_h.
C31_EvaluatorsAgree ==
    pc = "evaluated" =>
        /\ ScoresOf(res_analyze) = ScoresOf(res_offline)
        /\ res_stats = RetsOf(res_analyze)
        /\ \A k \in 0 .. Len(sweeps) :
              LET a == analyze_compute_ret_mfe_mae(ticks, Prefix(sweeps, k),
                                                   T_HORIZON)
                  o == offline_compute_ret_mfe_mae(ticks, Prefix(sweeps, k))
                  s == compute_ret_stats(ticks, Prefix(sweeps, k), T_HORIZON)
              IN  Len(a) = Len(o) /\ Len(o) = NStats(s)

\* C31 witness: two events of which the second has a later price0 tick
\* than the first (the shared pointer has moved between them), both scored
\* by all three, one Up and one Down, with prices moving within the horizon.
C31_Witness ==
    /\ pc = "evaluated"
    /\ Len(sweeps) = 2
    /\ Len(ticks) = 3
    /\ sweeps[1].ts_end <= ticks[1].ts
    /\ sweeps[2].ts_end > ticks[2].ts
    /\ sweeps[1].direction = 1 /\ sweeps[2].direction = -1
    /\ Len(res_analyze) = 2 /\ Len(res_offline) = 2
    /\ Len(res_stats.up_rets) = 1 /\ Len(res_stats.down_rets) = 1
    /\ res_offline[1].ret_h.num # 0
    /\ res_offline[1].mfe_h # res_offline[1].mae_h

\* f <= g for quotients with positive denominators.
FracLe(f, g) == f.num * g.den <= g.num * f.den

Zero == Frac(0, 1)

\* The scan of an event as both compute_ret_mfe_mae run it: price0 and the
\* extremes the while loop leaves, << >> when there is no price0 tick.
ScanOf(ev) ==
    LET i0 == FirstAtOrAfter(ticks, ev.ts_end, 1)
    IN  IF i0 = 0 THEN << >>
        ELSE LET s == ScanHorizon(ticks, ev.ts_end + T_HORIZON,
                          [j |-> i0, max_p |-> ticks[i0].price,
                           min_p |-> ticks[i0].price])
             IN  << [price0 |-> ticks[i0].price, max_price |-> s.max_p,
                     min_price |-> s.min_p] >>

\* The ordering claimed of a record's ret_h, mfe_h and mae_h.
Ordered(r) ==
    /\ r.direction > 0 =>
          /\ FracLe(r.mae_h, Zero) /\ FracLe(Zero, r.mfe_h)
          /\ FracLe(r.mae_h, r.ret_h) /\ FracLe(r.ret_h, r.mfe_h)
    /\ r.direction < 0 =>
          /\ FracLe(r.mfe_h, Zero) /\ FracLe(Zero, r.mae_h)
          /\ FracLe(r.mfe_h, r.ret_h) /\ FracLe(r.ret_h, r.mae_h)

\* C35: for every event the evaluator scans (price0 > 0),
\* min_price <= price0 <= max_price, and every outcome record of an Up
\* event has mae_h <= 0 <= mfe_h and mae_h <= ret_h <= mfe_h, every record
\* of a Down event mfe_h <= 0 <= mae_h and mfe_h <= ret_h <= mae_h, in
\* both compute_ret_mfe_mae.
C35_OutcomeOrdering ==
    pc = "evaluated" =>
        /\ \A k \in 1 .. Len(sweeps) :
              LET sc == ScanOf(sweeps[k]) IN
              (sc # << >> /\ sc[1].price0 > 0) =>
                  /\ sc[1].min_price <= sc[1].price0
                  /\ sc[1].price0 <= sc[1].max_price
        /\ \A n \in 1 .. Len(res_analyze) : Ordered(res_analyze[n])
        /\ \A n \in 1 .. Len(res_offline) : Ordered(res_offline[n])

\* C35 witness: an Up and a Down event scored over a horizon whose prices
\* go above price0 and end below it, so that the Up record has
\* mae_h < 0 < mfe_h and the Down record mfe_h < 0 < mae_h.
C35_Witness ==
    /\ pc = "evaluated"
    /\ Len(res_analyze) = 2 /\ Len(res_offline) = 2
    /\ res_analyze[1].direction = 1 /\ res_offline[2].direction = -1
    /\ res_analyze[1].mae_h.num < 0 /\ res_analyze[1].mfe_h.num > 0
    /\ res_analyze[1].ret_h.num < 0
    /\ res_offline[2].mfe_h.num < 0 /\ res_offline[2].mae_h.num > 0

---------------------------------------------------------------------------
(* The two compute_ret_mfe_mae on an event list in any order.              *)
(* analyze_sweep.generate_sweeps_from_ticks appends the events as the      *)
(* engine signals them while it reads the tick file in file order, so the  *)
(* ts_end of its list follow the file, sorted or not.                      *)

InitOrder == InitEval

\* "sweeps.append(SweepRow(...))": the event goes to the end of the list
\* (an event of direction 0 is left out before the append).
AppendSweep ==
    /\ pc = "load"
    /\ Len(sweeps) < MaxSweeps
    /\ \E row \in AgreeSweepRows : sweeps' = Append(sweeps, row)
    /\ UNCHANGED <<pc, ticks, window_sec, price_bp_thresh, vol_min, evalVars>>
    /\ UNCHANGED restVars

\* Both compute_ret_mfe_mae called with the ticks and the event list.
RunBoth ==
    /\ pc = "load"
    /\ res_analyze' = analyze_compute_ret_mfe_mae(ticks, sweeps, T_HORIZON)
    /\ res_offline' = offline_compute_ret_mfe_mae(ticks, sweeps)
    /\ pc' = "evaluated"
    /\ UNCHANGED <<ticks, window_sec, price_bp_thresh, vol_min, sweeps,
                   res_stats>>
    /\ UNCHANGED restVars

NextOrder == LoadEvalTick \/ AppendSweep \/ RunBoth

SpecOrder == InitOrder /\ [][NextOrder]_vars

\* The orders of a list of n events.
Orders(n) ==
    {q \in [1 .. n -> 1 .. n] : \A a, b \in 1 .. n : q[a] = q[b] => a = b}

Reordered(evs, q) == [k \in 1 .. Len(evs) |-> evs[q[k]]]

\* The scores each event of the list gets when it is evaluated alone, in
\* the order of the list.
RECURSIVE AloneAnalyze(_, _)
AloneAnalyze(evs, k) ==
    IF k > Len(evs) THEN << >>
    ELSE ScoresOf(analyze_compute_ret_mfe_mae(ticks, <<evs[k]>>, T_HORIZON))
             \o AloneAnalyze(evs, k + 1)

RECURSIVE AloneOffline(_, _)
AloneOffline(evs, k) ==
    IF k > Len(evs) THEN << >>
    ELSE ScoresOf(offline_compute_ret_mfe_mae(ticks, <<evs[k]>>))
             \o AloneOffline(evs, k + 1)

\* C36: the record of an event depends on the event, the ticks and the
\* horizon only: in whatever order the event list is evaluated, each
\* compute_ret_mfe_mae scores the events it scores when each is evaluated
\* alone, with the same values.
C36_OrderIndependent ==
    pc = "evaluated" =>
        /\ ScoresOf(res_analyze) = AloneAnalyze(sweeps, 1)
        /\ ScoresOf(res_offline) = AloneOffline(sweeps, 1)
        /\ \A q \in Orders(Len(sweeps)) :
              LET evs == Reordered(sweeps, q) IN
              /\ ScoresOf(analyze_compute_ret_mfe_mae(ticks, evs, T_HORIZON))
                    = AloneAnalyze(evs, 1)
              /\ ScoresOf(offline_compute_ret_mfe_mae(ticks, evs))
                    = AloneOffline(evs, 1)

\* The same of analyze_sweep.compute_ret_mfe_mae alone.
AnalyzeOrderIndependent ==
    pc = "evaluated" =>
        \A q \in Orders(Len(sweeps)) :
            LET evs == Reordered(sweeps, q) IN
            ScoresOf(analyze_compute_ret_mfe_mae(ticks, evs, T_HORIZON))
                = AloneAnalyze(evs, 1)

---------------------------------------------------------------------------
(* sweep_param_scan.main over loaded tick lists, with the passes of        *)
(* detect_sweeps_py's outer loop kept for every configuration.  Time unit  *)
(* 0.1 s as for the grid above: ticks 0.6 s apart fall into the windows of *)
(* 0.6 s (exactly at its end) and 1.0 s but not into the window of 0.3 s.  *)

MonoTsValues == {0, 6}
MonoTickRows == [ts : MonoTsValues, price : PriceLevels, vol : VolLevels]

\* detect_sweeps_py for one configuration with what each pass of its outer
\* loop appended: passes[i] is << >> or the event of start index i.
DetectLogged(tk, c) ==
    [cfg    |-> c,
     passes |-> [i \in 1 .. Len(tk) |->
                    SweepAt(tk, i, c.window, c.bp, c.vol_min)],
     sweeps |-> detect_sweeps_py(tk, c.window, c.bp, c.vol_min)]

\* the three nested for loops of main from the configuration idx on
RECURSIVE GridLog(_, _, _)
GridLog(tk, idx, acc) ==
    IF idx[1] > Len(WINDOW_LIST) THEN acc
    ELSE GridLog(tk, GridAdvance(idx),
                 Append(acc, DetectLogged(tk, GridConfig(idx))))

\* the index triple the loops end with
GridEnd == <<Len(WINDOW_LIST) + 1, 1, 1>>

InitMono == InitDetect

\* load_ticks: the rows of the file, sorted by ts
LoadMonoTick ==
    /\ pc = "load"
    /\ Len(ticks) < MaxTicks
    /\ \E row \in MonoTickRows : ticks' = InsertByTs(ticks, row)
    /\ UNCHANGED <<pc, window_sec, price_bp_thresh, vol_min, sweeps, evalVars>>
    /\ UNCHANGED restVars

\* main from its first loop to its end: the detector and the evaluator
\* once per configuration on the loaded ticks
RunGrid ==
    /\ pc = "load"
    /\ emit_log' = GridLog(ticks, <<1, 1, 1>>, << >>)
    /\ sweeps' = emit_log'[Len(emit_log')].sweeps
    /\ res_stats' = compute_ret_stats(ticks, sweeps', GridHorizon)
    /\ window_sec' = emit_log'[Len(emit_log')].cfg.window
    /\ price_bp_thresh' = emit_log'[Len(emit_log')].cfg.bp
    /\ vol_min' = emit_log'[Len(emit_log')].cfg.vol_min
    /\ grid_report' =
          [m \in 1 .. Len(emit_log') |->
              LET st == compute_ret_stats(ticks, emit_log'[m].sweeps,
                                          GridHorizon)
              IN  [cfg |-> emit_log'[m].cfg,
                   sweeps |-> Len(emit_log'[m].sweeps),
                   down |-> st.down_rets, up |-> st.up_rets]]
    /\ grid_calls' =
          [n \in 1 .. 2 * Len(emit_log') |->
              [fn  |-> IF n % 2 = 1 THEN "detect_sweeps_py"
                                    ELSE "compute_ret_stats",
               cfg |-> emit_log'[(n + 1) \div 2].cfg]]
    /\ grid_idx' = GridEnd
    /\ pc' = "scanned"
    /\ UNCHANGED <<ticks, res_analyze, res_offline, consumerVars, probeVars,
                   reporterVars, windows, smokeVars, scan_log>>

NextMono == LoadMonoTick \/ RunGrid

SpecMono == InitMono /\ [][NextMono]_vars

\* the start indices whose pass appended an event
Starts(e) == {i \in 1 .. Len(e.passes) : e.passes[i] # << >>}

\* configuration b raises the price threshold or the volume minimum of a,
\* or both, on the same window
RaisesThresholds(a, b) ==
    /\ a.window = b.window
    /\ a.bp <= b.bp
    /\ a.vol_min <= b.vol_min

\* configuration b raises the window of a
RaisesWindow(a, b) ==
    /\ a.window <= b.window
    /\ a.bp = b.bp
    /\ a.vol_min = b.vol_min

\* C37: on a sorted tick list with non-negative volumes the set of start
\* indices at which detect_sweeps_py emits an event gains no index when
\* price_bp_thresh or vol_min is raised and loses none when window_sec is
\* raised, and the number of events returned is the number of these
\* indices, so the event count is monotone along each axis of the grid.
C37_EmittingStartsMonotone ==
    pc = "scanned" =>
        /\ \A m \in 1 .. Len(emit_log) :
              Len(emit_log[m].sweeps) = Cardinality(Starts(emit_log[m]))
        /\ \A a, b \in 1 .. Len(emit_log) :
              /\ RaisesThresholds(emit_log[a].cfg, emit_log[b].cfg) =>
                    /\ Starts(emit_log[b]) \subseteq Starts(emit_log[a])
                    /\ Len(emit_log[b].sweeps) <= Len(emit_log[a].sweeps)
              /\ RaisesWindow(emit_log[a].cfg, emit_log[b].cfg) =>
                    /\ Starts(emit_log[a]) \subseteq Starts(emit_log[b])
                    /\ Len(emit_log[a].sweeps) <= Len(emit_log[b].sweeps)

\* C37 witness: a grid in which raising a threshold loses a start index,
\* raising the window gains one, and a start index that emits an Up event
\* emits a Down event under a raised volume minimum.
C37_Witness ==
    /\ pc = "scanned"
    /\ \A j \in 1 .. Len(ticks) : ticks[j].vol >= 0
    /\ \E a, b \in 1 .. Len(emit_log) :
          /\ RaisesThresholds(emit_log[a].cfg, emit_log[b].cfg)
          /\ Starts(emit_log[b]) # Starts(emit_log[a])
    /\ \E a, b \in 1 .. Len(emit_log) :
          /\ RaisesWindow(emit_log[a].cfg, emit_log[b].cfg)
          /\ Starts(emit_log[a]) # Starts(emit_log[b])
    /\ \E a, b \in 1 .. Len(emit_log) :
          /\ RaisesThresholds(emit_log[a].cfg, emit_log[b].cfg)
          /\ \E i \in Starts(emit_log[b]) :
                /\ emit_log[a].passes[i][1].direction = 1
                /\ emit_log[b].passes[i][1].direction = -1

---------------------------------------------------------------------------
(* live_bybit_strategy.handle_action in live mode, one call per step, on   *)
(* whatever actions the strategy returns.                                  *)

\* most orders handed to place_order_live / close_position_live in one run
MaxOrders == 3

InitLive ==
    /\ pc = "live"
    /\ mode = "live"
    /\ PipelineInit
    /\ DriverInit
    /\ ConsumerInit
    /\ ProbeInit

\* one call handle_action(act)
HandleAction ==
    /\ pc = "live"
    /\ Len(live.orders) < MaxOrders
    /\ \E act \in StrategyActions : live' = handle_action(live, act, mode)
    /\ UNCHANGED <<pc, mode, engine_events, n_fed, on_sweep_calls, backtest,
                   sweep_log, tick_log, pipelineVars, probeVars>>
    /\ UNCHANGED driverVars

NextLive == HandleAction

SpecLive == InitLive /\ [][NextLive]_vars

\* The position the orders sent so far leave at the exchange: the direction
\* and price of the last open order when no close order follows it, no
\* position (0, and 0 for None) otherwise.
RECURSIVE PositionAfter(_, _, _)
PositionAfter(orders, k, pos) ==
    IF k > Len(orders) THEN pos
    ELSE PositionAfter(orders, k + 1,
             IF orders[k].op = "open"
             THEN [dir |-> orders[k].direction, entry |-> orders[k].price]
             ELSE [dir |-> 0, entry |-> 0])

ImpliedPosition(orders) == PositionAfter(orders, 1, [dir |-> 0, entry |-> 0])

\* the orders a step has sent
SentBy(before, after) ==
    SubSeq(after.orders, Len(before.orders) + 1, Len(after.orders))

\* C33: in live mode, after every action handled, the recorded position
\* (current_pos_dir, entry_price_track) is the position the orders sent
\* imply: an open order is sent only when no position is recorded, a close
\* order only when one is recorded, and current_pos_dir becomes +1 / -1
\* only in a step that sent the open order of that direction.
C33_RecordedPositionMatchesOrders ==
    [][mode = "live" =>
          LET sent == SentBy(live, live')
              implied == ImpliedPosition(live'.orders)
          IN  /\ \A n \in 1 .. Len(sent) :
                    /\ sent[n].op = "open" => live.current_pos_dir = 0
                    /\ sent[n].op = "close" => live.current_pos_dir # 0
              /\ (/\ live'.current_pos_dir # live.current_pos_dir
                  /\ live'.current_pos_dir # 0)
                 => \E n \in 1 .. Len(sent) :
                        /\ sent[n].op = "open"
                        /\ sent[n].direction = live'.current_pos_dir
              /\ live'.current_pos_dir = implied.dir
              /\ live'.entry_price_track = implied.entry]_vars

\* The two parts of C33 about the orders alone: an open order is sent only
\* when no position is recorded, a close order only when one is recorded.
OrdersSentOnRecordedPosition ==
    [][mode = "live" =>
          \A n \in 1 .. Len(SentBy(live, live')) :
              /\ SentBy(live, live')[n].op = "open"
                    => live.current_pos_dir = 0
              /\ SentBy(live, live')[n].op = "close"
                    => live.current_pos_dir # 0]_vars

---------------------------------------------------------------------------
(* The offline backtest and the live script in paper mode on the same      *)
(* ticks with the same engine and strategy: every tick gives both the same *)
(* signal and the same actions from on_sweep and on_tick.                  *)

InitPaper ==
    /\ pc = "replay"
    /\ mode = "paper"
    /\ PipelineInit
    /\ DriverInit
    /\ ConsumerInit
    /\ ProbeInit

\* one tick: the body of live_bybit_strategy.on_message's loop over the
\* trades and one pass of offline_backtest.main's loop over the ticks
ReplayTick ==
    /\ pc = "replay"
    /\ n_fed < MaxFed
    /\ \E out \in EngineOutputs, act_from_sweep \in StrategyActions,
          act_from_tick \in StrategyActions :
          LET signalled == out.sig # "NoSignal"
              st1 == IF signalled
                     THEN handle_action(live, act_from_sweep, mode)
                     ELSE live
              b1 == IF signalled
                    THEN BacktestOnSweepAct(
                             [backtest EXCEPT !.sweep_cnt = @ + 1],
                             act_from_sweep)
                    ELSE backtest
          IN  /\ engine_events' = IF signalled
                                  THEN Append(engine_events, out.ev)
                                  ELSE engine_events
              /\ on_sweep_calls' = IF signalled
                                   THEN Append(on_sweep_calls, out.ev)
                                   ELSE on_sweep_calls
              /\ live' = handle_action(st1, act_from_tick, mode)
              /\ backtest' = BacktestClose(b1, act_from_tick)
    /\ n_fed' = n_fed + 1
    /\ UNCHANGED <<pc, mode, sweep_log, tick_log, pipelineVars, probeVars>>
    /\ UNCHANGED driverVars

NextPaper == ReplayTick

SpecPaper == InitPaper /\ [][NextPaper]_vars

\* C34: after every tick the backtest's bookkeeping equals the paper-mode
\* bookkeeping of handle_action: direction, entry price, wins, losses and
\* cumulated pnl.
C34_BacktestEqualsPaper ==
    /\ backtest.current_dir = live.current_pos_dir
    /\ backtest.entry_price = live.entry_price_track
    /\ backtest.wins = live.win_count
    /\ backtest.losses = live.loss_count
    /\ backtest.cum_pnl = live.cum_pnl

---------------------------------------------------------------------------
(* The pulses of one run of the probe, one second apart: maybe_emit takes  *)
(* the tracker's summary and hands it to _detect_run (lines 210-211).      *)

\* most pulses in one run
MaxPulses == 5

InitPulses == InitRun

\* one pulse: agg_stats = self.agg.summary(ts_now), then
\* self._detect_run(ts_now, agg_stats), at the clock's time
PulseRun ==
    /\ pc = "probe"
    /\ now < MaxPulses
    /\ \E p \in PulseFlows :
          LET r == _detect_run(bias_hist, now, PulseStats(p))
          IN  /\ bias_hist' = r.hist
              /\ run_ret' = r.ret
              /\ run_call' = [op |-> "_detect_run",
                              net |-> PulseStats(p)[1].net,
                              total |-> PulseStats(p)[1].total]
    /\ now' = now + 1
    /\ UNCHANGED <<pc, pipelineVars, consumerVars, flowVars, bookVars>>
    /\ UNCHANGED <<last_emit, last_price, pulse, msg, n_msgs, batchVars,
                   windows, smokeVars>>

NextPulses == PulseRun

SpecPulses == InitPulses /\ [][NextPulses]_vars

Sign(x) == IF x > 0 THEN 1 ELSE IF x < 0 THEN -1 ELSE 0

\* C38: a pulse whose 1-second window has zero total volume or zero net
\* flow makes _detect_run return none and leaves the bias history as it
\* was, and every sample of the bias history has a non-zero dir, the sign
\* of its net.
C38_NeutralPulseLeavesHistory ==
    [][now' # now =>
          /\ (run_call'.total <= 0 \/ run_call'.net = 0) =>
                /\ run_ret' = << >>
                /\ bias_hist' = bias_hist
          /\ \A k \in 1 .. Len(bias_hist') :
                /\ bias_hist'[k].dir # 0
                /\ bias_hist'[k].dir = Sign(bias_hist'[k].net)]_vars

\* C38 witness: a run confirmed at the fifth pulse from the samples of the
\* first, third and fifth pulse; the second and the fourth pulse, one with
\* no volume and one with zero net or likewise, appended nothing.
C38_Witness ==
    /\ run_call.op = "_detect_run"
    /\ run_ret # << >>
    /\ Len(bias_hist) = 3
    /\ bias_hist[2].ts = bias_hist[1].ts + 2
    /\ bias_hist[3].ts = bias_hist[2].ts + 2
    /\ now = bias_hist[3].ts + 1
    /\ SameNonZeroDirection(bias_hist)


\* ---------------------------------------------------------------------
\* ws_long_smoketest.py: on_message and handle_action on the globals of
\* the script.  The clock counts whole seconds; a trade carries the time
\* of the message it arrives in.
\* ---------------------------------------------------------------------

BUCKET_MAXLEN == 6

SmokePrices == {99, 100}

SmokeVols == {1, 3}

\* one trade of a publicTrade message: (ts, side, vol, price)
SmokeTrade(ts, side, vol, price) ==
    [ts |-> ts, side |-> side, vol |-> vol, price |-> price]

\* the messages of the topic that arrive at ts: one trade, or a buy and a
\* sell of the same volume
SmokeMsgs(ts) ==
    { <<SmokeTrade(ts, s, v, p)>> :
         s \in {"Buy", "Sell"}, v \in SmokeVols, p \in SmokePrices }
    \cup { <<SmokeTrade(ts, "Buy", 1, p), SmokeTrade(ts, "Sell", 1, q)>> :
              p \in SmokePrices, q \in SmokePrices }

RECURSIVE Gcd(_, _)
Gcd(a, b) == IF b = 0 THEN a ELSE Gcd(b, a % b)

\* the quotient n / d in lowest terms, d > 0
Norm(n, d) ==
    LET g == Gcd(Abs(n), d)
    IN  [num |-> n \div g, den |-> d \div g]

\* f + g
FracAdd(f, g) ==
    LET l == f.den * (g.den \div Gcd(f.den, g.den))
    IN  Norm(f.num * (l \div f.den) + g.num * (l \div g.den), l)

\* handle_action(act) of ws_long_smoketest on the globals st
SmokeHandleAction(st, act) ==
    IF act.type = "Idle" THEN st
    ELSE IF act.type = "OpenLong"
    THEN [st EXCEPT !.current_pos_dir = 1,
                    !.entry_price = <<act.price>>,
                    !.position_size_usd =
                        Norm(st.bankroll.num * LEVERAGE, st.bankroll.den)]
    ELSE IF act.type = "OpenShort"
    THEN [st EXCEPT !.current_pos_dir = -1,
                    !.entry_price = <<act.price>>,
                    !.position_size_usd =
                        Norm(st.bankroll.num * LEVERAGE, st.bankroll.den)]
    ELSE LET booked ==
                 IF st.current_pos_dir # 0 /\ st.entry_price # << >>
                 THEN LET e == st.entry_price[1]
                          pnl == Norm((act.price - e)
                                         * st.position_size_usd.num
                                         * st.current_pos_dir,
                                      e * st.position_size_usd.den)
                      IN  [st EXCEPT
                             !.cum_pnl = FracAdd(@, pnl),
                             !.bankroll = FracAdd(@, pnl),
                             !.win_count = IF pnl.num > 0 THEN @ + 1 ELSE @,
                             !.loss_count = IF pnl.num < 0 THEN @ + 1 ELSE @]
                 ELSE st
         IN  [booked EXCEPT !.current_pos_dir = 0,
                            !.entry_price = << >>,
                            !.position_size_usd = Norm(0, 1)]

\* bucket_1s.append(b) on a deque of maxlen BUCKET_MAXLEN
BucketAppend(bk, b) ==
    IF Len(bk) >= BUCKET_MAXLEN THEN Append(Tail(bk), b) ELSE Append(bk, b)

\* the loop over the trades of the message: each is appended to trades_1s
\* and added to the bucket of its second
RECURSIVE SmokeRecord(_, _, _)
SmokeRecord(tr, bk, m) ==
    IF m = << >> THEN [trades_1s |-> tr, bucket_1s |-> bk]
    ELSE LET t == Head(m)
             bk1 == IF bk = << >> \/ bk[Len(bk)].sec # t.ts
                    THEN BucketAppend(bk, [sec |-> t.ts, buy |-> 0,
                                           sell |-> 0])
                    ELSE bk
             bk2 == [bk1 EXCEPT ![Len(bk1)] =
                        IF t.side = "Buy"
                        THEN [@ EXCEPT !.buy = @ + t.vol]
                        ELSE [@ EXCEPT !.sell = @ + t.vol]]
         IN  SmokeRecord(Append(tr, t), bk2, Tail(m))

\* while trades_1s and trades_1s[0][0] < cutoff: trades_1s.popleft()
RECURSIVE PopTradesBefore(_, _)
PopTradesBefore(tr, cutoff) ==
    IF tr # << >> /\ Head(tr).ts < cutoff
    THEN PopTradesBefore(Tail(tr), cutoff)
    ELSE tr

\* while bucket_1s and bucket_1s[0]["sec"] < cutoff_sec: popleft()
RECURSIVE PopBucketsBefore(_, _)
PopBucketsBefore(bk, cutoff_sec) ==
    IF bk # << >> /\ Head(bk).sec < cutoff_sec
    THEN PopBucketsBefore(Tail(bk), cutoff_sec)
    ELSE bk

\* sum(v for _, s, v, _ in trades_1s if s == side)
RECURSIVE SideVolume(_, _)
SideVolume(tr, side) ==
    IF tr = << >> THEN 0
    ELSE (IF Head(tr).side = side THEN Head(tr).vol ELSE 0)
            + SideVolume(Tail(tr), side)

\* bucket_dir(bk): (direction or None, |net|); share >= 0.6 is
\* 5 * buy >= 3 * tot and share <= 0.4 is 5 * buy <= 2 * tot
bucket_dir(bk) ==
    LET net == bk.buy - bk.sell
        tot == bk.buy + bk.sell
    IN  IF tot <= 0 THEN [d |-> "None", m |-> 0]
        ELSE IF net > 0 /\ 5 * bk.buy >= 3 * tot
        THEN [d |-> "buy", m |-> Abs(net)]
        ELSE IF net < 0 /\ 5 * bk.buy <= 2 * tot
        THEN [d |-> "sell", m |-> Abs(net)]
        ELSE [d |-> "None", m |-> 0]

\* run_dir of on_message from the last three buckets
RunDir(bk) ==
    IF Len(bk) >= 3
    THEN LET r1 == bucket_dir(bk[Len(bk) - 2])
             r2 == bucket_dir(bk[Len(bk) - 1])
             r3 == bucket_dir(bk[Len(bk)])
         IN  IF /\ r1.d # "None"
                /\ r1.d = r2.d
                /\ r2.d = r3.d
                /\ r1.m <= r2.m
                /\ r2.m <= r3.m
             THEN r3.d
             ELSE "None"
    ELSE "None"

\* desired_dir of on_message (0 is None); buy_share > 0.5 is
\* 2 * buy > total
DesiredDir(run_dir, buy, total) ==
    IF run_dir = "buy" THEN 1
    ELSE IF run_dir = "sell" THEN -1
    ELSE IF total > 0 /\ 2 * buy > total THEN 1
    ELSE IF total > 0 /\ 2 * buy < total THEN -1
    ELSE 0

\* the globals and the list of handled actions after handle_action(act)
\* in message k; the list keeps current_pos_dir as it was at the call
SmokeDo(r, type, dir, price, k) ==
    [st |-> SmokeHandleAction(r.st, [type |-> type, dir |-> dir,
                                     price |-> price]),
     acts |-> Append(r.acts, [type |-> type, dir |-> dir, price |-> price,
                              held |-> r.st.current_pos_dir, msg |-> k])]

\* on_message of ws_long_smoketest for the k-th message m of the topic,
\* a non-empty list of trades, read at the clock's time ts_now
SmokeOnMessage(st, acts, m, ts_now, k) ==
    LET rec == SmokeRecord(st.trades_1s, st.bucket_1s, m)
        tr == PopTradesBefore(rec.trades_1s, ts_now - 1)
        bk == PopBucketsBefore(rec.bucket_1s, ts_now - 5)
        buy == SideVolume(tr, "Buy")
        sell == SideVolume(tr, "Sell")
        total == buy + sell
        price == m[1].price
        desired_dir == DesiredDir(RunDir(bk), buy, total)
        r0 == [st |-> [st EXCEPT !.trades_1s = tr, !.bucket_1s = bk],
               acts |-> acts]
    IN  IF desired_dir = 1
        THEN LET r1 == IF r0.st.current_pos_dir = -1
                       THEN SmokeDo(r0, "Close", -1, price, k)
                       ELSE r0
             IN  IF r1.st.current_pos_dir # 1
                 THEN SmokeDo(r1, "OpenLong", 1, price, k)
                 ELSE r1
        ELSE IF desired_dir = -1
        THEN LET r1 == IF r0.st.current_pos_dir = 1
                       THEN SmokeDo(r0, "Close", 1, price, k)
                       ELSE r0
             IN  IF r1.st.current_pos_dir # -1
                 THEN SmokeDo(r1, "OpenShort", -1, price, k)
                 ELSE r1
        ELSE r0

InitSmoke ==
    /\ pc = "smoke"
    /\ mode = "paper"
    /\ PipelineInit
    /\ DriverInit
    /\ ConsumerInit
    /\ ProbeInit

\* one message of the topic arrives and on_message runs to its end
SmokeMessage ==
    /\ pc = "smoke"
    /\ n_msgs < MaxMsgs
    /\ \E step \in ClockSteps :
          \E m \in SmokeMsgs(now + step) :
             LET r == SmokeOnMessage(smoke, smoke_acts, m, now + step,
                                     n_msgs + 1)
             IN  /\ smoke' = r.st
                 /\ smoke_acts' = r.acts
                 /\ now' = now + step
    /\ n_msgs' = n_msgs + 1
    /\ UNCHANGED <<pc, pipelineVars, consumerVars, probeVars>>
    /\ UNCHANGED <<last_emit, last_price, pulse, msg, batchVars, windows>>

NextSmoke == SmokeMessage

SpecSmoke == InitSmoke /\ [][NextSmoke]_vars

\* the actions handled in message k, in the order of the calls
ActsOf(k) == SelectSeq(smoke_acts, LAMBDA a : a.msg = k)

IsOpen(a) == a.type \in {"OpenLong", "OpenShort"}

\* a message whose desired direction is opposite to the held position
\* handles Close of the held position and then the Open; any other message
\* handles at most the Open
CloseBeforeOpen ==
    \A k \in 1..n_msgs :
       LET a == ActsOf(k)
       IN  \/ a = << >>
           \/ Len(a) = 1 /\ IsOpen(a[1]) /\ a[1].held = 0
           \/ /\ Len(a) = 2
              /\ a[1].type = "Close"
              /\ a[1].held # 0
              /\ a[1].dir = a[1].held
              /\ IsOpen(a[2])
              /\ a[2].dir = -a[1].held

\* every Open is handled while current_pos_dir is 0, none for the
\* direction already held
OpenOnlyWhenFlat ==
    \A i \in 1..Len(smoke_acts) :
       IsOpen(smoke_acts[i]) =>
          /\ smoke_acts[i].held = 0
          /\ smoke_acts[i].dir = (IF smoke_acts[i].type = "OpenLong"
                                  THEN 1 ELSE -1)

SmokePositionDiscipline ==
    /\ CloseBeforeOpen
    /\ OpenOnlyWhenFlat
    /\ (smoke.entry_price = << >>) <=> (smoke.current_pos_dir = 0)
    /\ (smoke.current_pos_dir = 0) => (smoke.position_size_usd.num = 0)

=============================================================================
